---- MODULE Spec2Model ----
(***************************************************************************)
(* Service Fusion -> GoHighLevel synchronisation bridge.                   *)
(*                                                                         *)
(* Time is counted in whole hours.  A Source timestamp string is modelled  *)
(* as a record [wall, sfx]: the wall-clock hour it states and the suffix   *)
(* it carries ("+00:00", "" or, for an unparsable string, "junk").         *)
(***************************************************************************)
EXTENDS Integers, Sequences, FiniteSets, TLC

VARIABLES
    lIn, lOut,      \* the lister alone: its inputs and its result
    sIn, sLog,      \* the work-order flow alone: its inputs, the calls made
    target,         \* the Target's contacts and opportunities
    src,            \* the Source's listings, newest first, per kind
    now,            \* the clock (UTC hours); a tick takes less than an hour
    file,           \* the state file: its status and its JSON content
    pc,             \* where the scheduler's tick stands: pass and phase
    tick,           \* ticks started so far
    run,            \* the locals of the pass running, or of the last one
    tickLog,        \* the passes and records of the current tick, in order
    last,           \* per kind: how its last pass ended and the since it used
    hIn, hOut,      \* the intake endpoint alone: a request and its outcome
    tasks           \* the runs of run_all_syncs on the event loop: where each stands

vars ==
    <<lIn, lOut, sIn, sLog, target, src, now, file, pc, tick, run, tickLog, last,
      hIn, hOut, tasks>>

listVars == <<lIn, lOut>>
syncVars == <<sIn, sLog>>
orchVars == <<src, now, file, pc, tick, run, tickLog, last, tasks>>
hookVars == <<hIn, hOut>>

-----------------------------------------------------------------------------
(* Bounds of the model *)

\* page size of the Source listing API (per_page=50 in the code), scaled down
PageSize == 3
\* longest feed the lister is run on
MaxFeed == 5
\* consecutive calls of the work-order flow on one work order
MaxCalls == 2

(* Program constants *)

\* America/New_York standard time is five hours behind UTC
SfUtcOffsetHours == 5

Min(a, b) == IF a < b THEN a ELSE b

\* max_results=100 default of get_updated_*: two pages
DefaultMaxResults == 2 * PageSize
\* max_results=50 used by find_converted_estimate_for_job: one page
ConversionMaxResults == PageSize

Kinds == {"customers", "estimates", "jobs"}

-----------------------------------------------------------------------------
(* Source timestamps *)

Ts(w) == [wall |-> w, sfx |-> "+00:00"]
JunkTs == [wall |-> 0, sfx |-> "junk"]

\* str.replace("+00:00", "") (customers also replace "Z"): what is left of
\* the string once the marker is stripped
StripMarker(kind, s) ==
    IF s.sfx = "+00:00" \/ (kind = "customers" /\ s.sfx = "Z")
    THEN [s EXCEPT !.sfx = ""]
    ELSE s

\* datetime.fromisoformat succeeds on the stripped string
Parses(kind, s) == StripMarker(kind, s).sfx = ""

\* updated_at_datetime: customers keep the stated wall-clock; jobs and
\* estimates read it in the Source zone and shift it to naive UTC
UpdatedAtDatetime_Mutant(kind, s) == StripMarker(kind, s).wall
UpdatedAtDatetime(kind, s) ==
    IF kind = "customers"
    THEN StripMarker(kind, s).wall
    ELSE StripMarker(kind, s).wall + SfUtcOffsetHours

-----------------------------------------------------------------------------
(* Source Record Lister: get_updated_customers / _jobs / _estimates *)

\* get_customers / get_jobs / get_estimates (page, per_page=50)
PageOf(feed, page) ==
    SubSeq(feed, (page - 1) * PageSize + 1, Min(page * PageSize, Len(feed)))

ScanStart ==
    [updated |-> <<>>, bad |-> <<>>, page |-> 1, pages |-> 0, examined |-> <<>>,
     notified |-> 0, returned |-> FALSE, raised |-> FALSE, items |-> <<>>]

\* the comparison that decides whether a record is included
IsNewer_Mutant(updated, since) == updated >= since
IsNewer(updated, since) == updated > since

\* the "for record in response.items" loop of one page
RECURSIVE ScanItems_StopsAtBad(_, _, _, _, _)
ScanItems_StopsAtBad(kind, items, since, i, st) ==
    IF i > Len(items) THEN st
    ELSE LET r == items[i]
             st1 == [st EXCEPT !.examined = Append(@, r.id)]
         IN IF ~Parses(kind, r.updated_at)
            THEN [st1 EXCEPT !.bad = Append(@, r.id),
                             !.returned = TRUE,
                             !.notified = @ + 1,
                             !.items = st1.updated]
            ELSE IF IsNewer(UpdatedAtDatetime(kind, r.updated_at), since)
            THEN ScanItems_StopsAtBad(kind, items, since, i + 1,
                                      [st1 EXCEPT !.updated = Append(@, r)])
            ELSE [st1 EXCEPT !.returned = TRUE,
                             !.notified = IF st1.bad # <<>> THEN @ + 1 ELSE @,
                             !.items = st1.updated]
RECURSIVE ScanItems_NoEarlyReturn(_, _, _, _, _)
ScanItems_NoEarlyReturn(kind, items, since, i, st) ==
    IF i > Len(items) THEN st
    ELSE LET r == items[i]
             st1 == [st EXCEPT !.examined = Append(@, r.id)]
         IN IF ~Parses(kind, r.updated_at)
            THEN ScanItems_NoEarlyReturn(kind, items, since, i + 1,
                                         [st1 EXCEPT !.bad = Append(@, r.id)])
            ELSE IF IsNewer(UpdatedAtDatetime(kind, r.updated_at), since)
            THEN ScanItems_NoEarlyReturn(kind, items, since, i + 1,
                                         [st1 EXCEPT !.updated = Append(@, r)])
            ELSE ScanItems_NoEarlyReturn(kind, items, since, i + 1, st1)
RECURSIVE ScanItems(_, _, _, _, _)
ScanItems(kind, items, since, i, st) ==
    IF i > Len(items) THEN st
    ELSE LET r == items[i]
             st1 == [st EXCEPT !.examined = Append(@, r.id)]
         IN IF ~Parses(kind, r.updated_at)
            THEN ScanItems(kind, items, since, i + 1,
                           [st1 EXCEPT !.bad = Append(@, r.id)])
            ELSE IF IsNewer(UpdatedAtDatetime(kind, r.updated_at), since)
            THEN ScanItems(kind, items, since, i + 1,
                           [st1 EXCEPT !.updated = Append(@, r)])
            ELSE [st1 EXCEPT !.returned = TRUE,
                             !.notified = IF st1.bad # <<>> THEN @ + 1 ELSE @,
                             !.items = st1.updated]

\* the code after the while loop: flush the bad batch, truncate
ScanFinish(st, max_results) ==
    [st EXCEPT !.notified = IF st.bad # <<>> THEN @ + 1 ELSE @,
               !.items = SubSeq(st.updated, 1, Min(max_results, Len(st.updated)))]

\* the "while len(updated) < max_results" loop; the failAt-th page fetch
\* raises (0: none does)
RECURSIVE ScanPages_IgnoresShortPage(_, _, _, _, _, _)
ScanPages_IgnoresShortPage(kind, feed, since, max_results, failAt, st) ==
    IF ~(Len(st.updated) < max_results) THEN ScanFinish(st, max_results)
    ELSE IF st.pages + 1 = failAt THEN [st EXCEPT !.raised = TRUE, !.pages = @ + 1]
    ELSE LET items == PageOf(feed, st.page)
             st0 == [st EXCEPT !.pages = @ + 1]
         IN IF items = <<>> THEN ScanFinish(st0, max_results)
            ELSE LET st1 == ScanItems(kind, items, since, 1, st0)
                 IN IF st1.returned THEN st1
                    ELSE ScanPages_IgnoresShortPage(kind, feed, since, max_results,
                                                    failAt, [st1 EXCEPT !.page = @ + 1])
RECURSIVE ScanPages(_, _, _, _, _, _)
ScanPages(kind, feed, since, max_results, failAt, st) ==
    IF ~(Len(st.updated) < max_results) THEN ScanFinish(st, max_results)
    ELSE IF st.pages + 1 = failAt THEN [st EXCEPT !.raised = TRUE, !.pages = @ + 1]
    ELSE LET items == PageOf(feed, st.page)
             st0 == [st EXCEPT !.pages = @ + 1]
         IN IF items = <<>> THEN ScanFinish(st0, max_results)
            ELSE LET st1 == ScanItems(kind, items, since, 1, st0)
                 IN IF st1.returned THEN st1
                    ELSE IF Len(items) < PageSize THEN ScanFinish(st1, max_results)
                    ELSE ScanPages(kind, feed, since, max_results, failAt,
                                   [st1 EXCEPT !.page = @ + 1])

GetUpdated(kind, feed, since, max_results, failAt) ==
    ScanPages(kind, feed, since, max_results, failAt, ScanStart)

-----------------------------------------------------------------------------
(* Values shared by the Source and Target models *)

\* Python None, for strings (phone, email, stage) and for ids
None == "none"
NoId == 0
NoTs == [wall |-> 0, sfx |-> "none"]

\* str(id): the string a Source id is written as into a Target custom field
Str(n) == <<"str", n>>

\* the Source customers behind get_customer_by_id; an id outside the table
\* answers 404
SFCustomers ==
    (1 :> [id |-> 1, phone |-> "p1", email |-> "e1"]) @@
    (2 :> [id |-> 2, phone |-> None, email |-> "e2"]) @@
    (3 :> [id |-> 3, phone |-> None, email |-> None]) @@
    (5 :> [id |-> 5, phone |-> "p5", email |-> None])

NoCustomer == [id |-> NoId, phone |-> None, email |-> None]

\* sf_to_ghl_stage_map, with every stage id configured (non-empty, distinct)
sf_to_ghl_stage_map ==
    ("Unscheduled" :> "ghl_stage_job_scheduled") @@
    ("Cancelled" :> "ghl_stage_canceled") @@
    ("Scheduled" :> "ghl_stage_job_scheduled") @@
    ("Dispatched" :> "ghl_stage_job_scheduled") @@
    ("Partially Completed" :> "ghl_stage_job_in_progress") @@
    ("Delayed" :> "ghl_stage_job_in_progress") @@
    ("On The Way" :> "ghl_stage_job_in_progress") @@
    ("On Site" :> "ghl_stage_job_in_progress") @@
    ("Started" :> "ghl_stage_job_in_progress") @@
    ("Paused" :> "ghl_stage_job_in_progress") @@
    ("Resumed" :> "ghl_stage_job_in_progress") @@
    ("Completed" :> "ghl_stage_review_referral") @@
    ("Estimate Requested" :> "ghl_stage_estimate_scheduled") @@
    ("Estimate Accepted" :> "ghl_stage_estimate_stop") @@
    ("Estimate Won" :> "ghl_stage_estimate_stop") @@
    ("Lost" :> "ghl_stage_estimate_stop") @@
    ("Estimate Provided" :> "ghl_stage_estimate_sent")

\* the status names Settings declares: sf_status_* and sf_estimate_status_*
JobStatuses ==
    {"Unscheduled", "Scheduled", "Dispatched", "Delayed", "On The Way", "On Site",
     "Started", "Paused", "Resumed", "Completed", "Cancelled", "Job Closed",
     "To be invoiced", "Invoiced", "Paid in Full", "Partially Completed", "Archived"}

EstimateStatuses ==
    {"Estimate Requested", "Estimate Scheduled", "Estimate Provided",
     "Estimate Accepted", "Estimate Won", "Lost"}

\* sf_to_ghl_stage_map.get(status)
StageMapGet(status) ==
    IF status \in DOMAIN sf_to_ghl_stage_map THEN sf_to_ghl_stage_map[status] ELSE None

-----------------------------------------------------------------------------
(* Target (GoHighLevel): contacts and opportunities *)

NoContact == [id |-> NoId, phone |-> None, email |-> None, link |-> Str(NoId)]
NoOpp == [id |-> NoId, contact |-> NoId, tag |-> Str(NoId), stage |-> None]

EmptyTarget == [contacts |-> {}, opps |-> {}]

\* the Target lists records in creation order: contacts[0] is the oldest match
FirstOf(S, none) ==
    IF S = {} THEN none ELSE CHOOSE c \in S : \A d \in S : c.id <= d.id

NextId(S) == IF S = {} THEN 1 ELSE (CHOOSE c \in S : \A d \in S : c.id >= d.id).id + 1

search_contact_by_phone(tgt, phone) ==
    FirstOf({c \in tgt.contacts : c.phone = phone}, NoContact)

search_contact_by_email(tgt, email) ==
    FirstOf({c \in tgt.contacts : c.email = email}, NoContact)

\* PUT /contacts/{id} with the link custom field
update_contact_custom_field(tgt, contact_id, value) ==
    [tgt EXCEPT !.contacts =
        {IF c.id = contact_id THEN [c EXCEPT !.link = value] ELSE c : c \in @}]

\* POST /contacts/upsert: the Target matches an existing contact by phone or
\* email and updates it, else creates one; data.link = Str(NoId) when the
\* payload carries no link custom field
UpsertMatch(tgt, data) ==
    FirstOf({c \in tgt.contacts :
                \/ (data.phone # None /\ c.phone = data.phone)
                \/ (data.email # None /\ c.email = data.email)}, NoContact)

upsert_contact(tgt, data) ==
    LET m == UpsertMatch(tgt, data)
        merged(c) == [id |-> c.id,
                      phone |-> IF data.phone # None THEN data.phone ELSE c.phone,
                      email |-> IF data.email # None THEN data.email ELSE c.email,
                      link |-> IF data.link # Str(NoId) THEN data.link ELSE c.link]
        fresh == [id |-> NextId(tgt.contacts), phone |-> data.phone,
                  email |-> data.email, link |-> data.link]
    IN IF m # NoContact
       THEN [tgt |-> [tgt EXCEPT !.contacts = (@ \ {m}) \cup {merged(m)}], id |-> m.id]
       ELSE [tgt |-> [tgt EXCEPT !.contacts = @ \cup {fresh}], id |-> fresh.id]

\* the tag comparison of the client-side filter
TagMatches(opp, sf_job_id, contact_id) ==
    opp.contact = contact_id /\ opp.tag = Str(sf_job_id)

\* all opportunities of the contact, filtered client-side by the crm_job_id field
search_opportunity_by_job_id(tgt, sf_job_id, contact_id) ==
    FirstOf({o \in tgt.opps : TagMatches(o, sf_job_id, contact_id)}, NoOpp)

create_opportunity(tgt, contact_id, stage, tag) ==
    LET fresh == [id |-> NextId(tgt.opps), contact |-> contact_id, tag |-> tag,
                  stage |-> stage]
    IN [tgt EXCEPT !.opps = @ \cup {fresh}]

update_opportunity_custom_field(tgt, opp_id, value) ==
    [tgt EXCEPT !.opps = {IF o.id = opp_id THEN [o EXCEPT !.tag = value] ELSE o : o \in @}]

update_opportunity(tgt, opp_id, stage) ==
    [tgt EXCEPT !.opps = {IF o.id = opp_id THEN [o EXCEPT !.stage = stage] ELSE o : o \in @}]

WriteCalls ==
    {"upsert_contact", "update_contact_custom_field", "create_opportunity",
     "update_opportunity_custom_field", "update_opportunity"}

TargetCalls ==
    WriteCalls \cup {"search_contact_by_phone", "search_contact_by_email",
                     "search_opportunity_by_job_id"}

-----------------------------------------------------------------------------
(* Notifications and errors *)

Note(fn, severity, count) == [fn |-> fn, severity |-> severity, count |-> count]

\* what the webhook does with the POST inside send_error: answers 200,
\* answers another status, or the request raises
Deliveries == {"ok", "non200", "exception"}

\* SlackNotifier.send_error: one notification is attempted and nothing is
\* raised, whatever the delivery does ("except Exception" around the body)
send_error_Mutant(note, D) == [notes |-> <<note>>, raised |-> D = "exception"]
send_error(note, D) == [notes |-> <<note>>, raised |-> FALSE]

\* "if <batch>: await slack_notifier.send_error(...)": notes holds the one
\* notification to send, or nothing
Notify(notes, D) ==
    IF notes = <<>> THEN [notes |-> <<>>, raised |-> FALSE]
    ELSE send_error(notes[1], D)

NoErr == [type |-> None, severity |-> None, ctx |-> {}, cause |-> None]

\* JobSyncError(message, severity, context): ctx holds the context's keys
JobSyncError(severity, ctx, cause) ==
    [type |-> "JobSyncError", severity |-> severity, ctx |-> ctx, cause |-> cause]

\* any other exception (httpx errors, ValueError), as raised by call `cause`
RawError(type, cause) ==
    [type |-> type, severity |-> None, ctx |-> {}, cause |-> cause]

\* which external call of a flow raises: the estimate listing of the
\* conversion check (est), one named Target/Source call (call), or the Target
\* answering a contact without an id (call = "no_contact_id"); and what the
\* webhook does with the notifications the flow sends (slack)
NoFailure == [est |-> FALSE, call |-> None, slack |-> "ok"]
Fails(F, name) == F.call = name

-----------------------------------------------------------------------------
(* Job sync logic: find_converted_estimate_for_job, sync_work_order_to_ghl *)

\* "last 2 hours to be safe"
ConversionWindowHours == 2

NoConversion == [id |-> NoId, calls |-> <<>>, notes |-> <<>>, raised |-> FALSE]

\* the estimate-matching test of the conversion check
IsConversionMatch(estimate, job) ==
    /\ estimate.customer_id = job.customer_id
    /\ estimate.status = "Estimate Won"
    /\ estimate.updated_at = job.updated_at

RECURSIVE FirstMatch(_, _, _)
FirstMatch(estimates, job, i) ==
    IF i > Len(estimates) THEN NoId
    ELSE IF IsConversionMatch(estimates[i], job) THEN estimates[i].id
    ELSE FirstMatch(estimates, job, i + 1)

find_converted_estimate_for_job_NoFreshCheck(job, estFeed, F) ==
    IF job.created_at = NoTs THEN NoConversion
    ELSE IF ~Parses("jobs", job.created_at)
    THEN [NoConversion EXCEPT !.raised = TRUE]
    ELSE LET since == UpdatedAtDatetime("jobs", job.created_at) - ConversionWindowHours
             res == GetUpdated("estimates", estFeed, since, ConversionMaxResults,
                               IF F.est THEN 1 ELSE 0)
             sent == Notify(IF res.notified > 0
                            THEN <<Note("get_updated_estimates", "low", Len(res.bad))>>
                            ELSE <<>>, F.slack)
         IN [id |-> IF res.raised \/ sent.raised THEN NoId
                    ELSE FirstMatch(res.items, job, 1),
             calls |-> <<"get_updated_estimates">>,
             notes |-> sent.notes,
             raised |-> FALSE]
find_converted_estimate_for_job_Propagates(job, estFeed, F) ==
    IF job.created_at = NoTs \/ job.created_at # job.updated_at THEN NoConversion
    ELSE IF ~Parses("jobs", job.created_at)
    THEN [NoConversion EXCEPT !.raised = TRUE]
    ELSE LET since == UpdatedAtDatetime("jobs", job.created_at) - ConversionWindowHours
             res == GetUpdated("estimates", estFeed, since, ConversionMaxResults,
                               IF F.est THEN 1 ELSE 0)
             sent == Notify(IF res.notified > 0
                            THEN <<Note("get_updated_estimates", "low", Len(res.bad))>>
                            ELSE <<>>, F.slack)
         IN [id |-> IF res.raised \/ sent.raised THEN NoId
                    ELSE FirstMatch(res.items, job, 1),
             calls |-> <<"get_updated_estimates">>,
             notes |-> sent.notes,
             raised |-> res.raised]
find_converted_estimate_for_job(job, estFeed, F) ==
    IF job.created_at = NoTs \/ job.created_at # job.updated_at THEN NoConversion
    ELSE IF ~Parses("jobs", job.created_at)
    THEN [NoConversion EXCEPT !.raised = TRUE]
    ELSE LET since == UpdatedAtDatetime("jobs", job.created_at) - ConversionWindowHours
             res == GetUpdated("estimates", estFeed, since, ConversionMaxResults,
                               IF F.est THEN 1 ELSE 0)
             sent == Notify(IF res.notified > 0
                            THEN <<Note("get_updated_estimates", "low", Len(res.bad))>>
                            ELSE <<>>, F.slack)
         IN [id |-> IF res.raised \/ sent.raised THEN NoId
                    ELSE FirstMatch(res.items, job, 1),
             calls |-> <<"get_updated_estimates">>,
             notes |-> sent.notes,
             raised |-> FALSE]

\* the state a flow threads through its steps
\* conv_id, contact_id and stage are the flow's locals
\* converted_from_estimate_id, contact_id and ghl_stage_id
Flow(tgt, calls, notes, conv_id) ==
    [tgt |-> tgt, calls |-> calls, notes |-> notes, conv_id |-> conv_id,
     contact_id |-> NoId, stage |-> None]
Call(fs, name) == [fs EXCEPT !.calls = Append(@, name)]

Outcome(fs, outcome, err) ==
    [tgt |-> fs.tgt, calls |-> fs.calls, notes |-> fs.notes,
     conv_id |-> fs.conv_id, contact_id |-> fs.contact_id, stage |-> fs.stage,
     outcome |-> outcome, err |-> err]

FullContext == {"work_order_id", "work_order_number", "customer_id"}

\* "except Exception as e: raise JobSyncError(...) from e"
Wrapped(fs, cause) ==
    Outcome(fs, "raised",
            JobSyncError("high", FullContext \cup {"original_error"}, cause))

\* Step 4: create or update the opportunity
CreateOrUpdate_Mutant(wo, stage, contact_id, opp, fs, F) ==
    IF opp = NoOpp
    THEN LET fs1 == Call(fs, "create_opportunity")
         IN IF Fails(F, "create_opportunity") THEN Wrapped(fs1, "create_opportunity")
            ELSE Outcome([fs1 EXCEPT !.tgt =
                             create_opportunity(@, contact_id, stage, Str(wo.id))],
                         "synced", NoErr)
    ELSE LET fs1 == Call(fs, "update_opportunity")
         IN IF Fails(F, "update_opportunity") THEN Wrapped(fs1, "update_opportunity")
            ELSE Outcome([fs1 EXCEPT !.tgt = update_opportunity(@, opp.id, stage)],
                         "synced", NoErr)
CreateOrUpdate_CreatesOnMismatch(wo, stage, contact_id, opp, fs, F) ==
    IF opp = NoOpp \/ opp.stage # stage
    THEN LET fs1 == Call(fs, "create_opportunity")
         IN IF Fails(F, "create_opportunity") THEN Wrapped(fs1, "create_opportunity")
            ELSE Outcome([fs1 EXCEPT !.tgt =
                             create_opportunity(@, contact_id, stage, Str(wo.id))],
                         "synced", NoErr)
    ELSE Outcome(fs, "synced", NoErr)
CreateOrUpdate(wo, stage, contact_id, opp, fs, F) ==
    IF opp = NoOpp
    THEN LET fs1 == Call(fs, "create_opportunity")
         IN IF Fails(F, "create_opportunity") THEN Wrapped(fs1, "create_opportunity")
            ELSE Outcome([fs1 EXCEPT !.tgt =
                             create_opportunity(@, contact_id, stage, Str(wo.id))],
                         "synced", NoErr)
    ELSE IF opp.stage = stage THEN Outcome(fs, "synced", NoErr)
    ELSE LET fs1 == Call(fs, "update_opportunity")
         IN IF Fails(F, "update_opportunity") THEN Wrapped(fs1, "update_opportunity")
            ELSE Outcome([fs1 EXCEPT !.tgt = update_opportunity(@, opp.id, stage)],
                         "synced", NoErr)

\* "if not opportunity": the normal lookup by the work order's own id
LookupOwn(wo, stage, contact_id, fs, F) ==
    LET fs1 == Call(fs, "search_opportunity_by_job_id")
    IN IF Fails(F, "search_opportunity_by_job_id")
       THEN Wrapped(fs1, "search_opportunity_by_job_id")
       ELSE CreateOrUpdate(wo, stage, contact_id,
                           search_opportunity_by_job_id(fs1.tgt, wo.id, contact_id),
                           fs1, F)

\* Step 3: the converted estimate's opportunity is re-pointed, else LookupOwn
ResolveOpportunity(wo, stage, conv_id, contact_id, fs, F) ==
    IF conv_id = NoId THEN LookupOwn(wo, stage, contact_id, fs, F)
    ELSE LET fs1 == Call(fs, "search_opportunity_by_job_id")
         IN IF Fails(F, "search_opportunity_by_job_id")
            THEN Wrapped(fs1, "search_opportunity_by_job_id")
            ELSE LET opp == search_opportunity_by_job_id(fs1.tgt, conv_id, contact_id)
                     fs2 == Call(fs1, "update_opportunity_custom_field")
                 IN IF opp = NoOpp THEN LookupOwn(wo, stage, contact_id, fs1, F)
                    ELSE IF Fails(F, "update_opportunity_custom_field")
                    THEN Wrapped(fs2, "update_opportunity_custom_field")
                    ELSE CreateOrUpdate(wo, stage, contact_id, opp,
                            [fs2 EXCEPT !.tgt =
                                update_opportunity_custom_field(@, opp.id, Str(wo.id))],
                            F)

\* "contact_id = ghl_contact.get('id'); if not contact_id: raise JobSyncError"
WithContact(wo, stage, conv_id, contact_id, fs, F) ==
    IF contact_id = NoId \/ Fails(F, "no_contact_id")
    THEN Outcome(fs, "raised",
                 JobSyncError("high", {"work_order_id", "customer_id"}, "no_contact_id"))
    ELSE ResolveOpportunity(wo, stage, conv_id, contact_id,
                            [fs EXCEPT !.contact_id = contact_id], F)

\* Step 2, second half: link the matched contact, or create one
LinkOrCreate(wo, stage, conv_id, cust, found, fs, F) ==
    IF found # NoContact
    THEN LET fs1 == Call(fs, "update_contact_custom_field")
         IN IF Fails(F, "update_contact_custom_field")
            THEN Wrapped(fs1, "update_contact_custom_field")
            ELSE WithContact(wo, stage, conv_id, found.id,
                    [fs1 EXCEPT !.tgt =
                        update_contact_custom_field(@, found.id, Str(cust.id))], F)
    ELSE LET fs1 == Call(fs, "upsert_contact")
             up == upsert_contact(fs1.tgt,
                      [phone |-> cust.phone, email |-> cust.email, link |-> Str(NoId)])
         IN IF Fails(F, "upsert_contact") THEN Wrapped(fs1, "upsert_contact")
            ELSE WithContact(wo, stage, conv_id, up.id, [fs1 EXCEPT !.tgt = up.tgt], F)

\* Step 2, first half: search by phone, then by email
FindContact_Mutant(wo, stage, conv_id, cust, fs, F) ==
    LET fs1 == IF cust.phone # None THEN Call(fs, "search_contact_by_phone") ELSE fs
        byPhone == IF cust.phone # None
                   THEN search_contact_by_phone(fs.tgt, cust.phone) ELSE NoContact
        tryEmail == cust.email # None
        fs2 == IF tryEmail THEN Call(fs1, "search_contact_by_email") ELSE fs1
        found == IF byPhone # NoContact THEN byPhone
                 ELSE IF tryEmail THEN search_contact_by_email(fs.tgt, cust.email)
                 ELSE byPhone
    IN IF cust.phone # None /\ Fails(F, "search_contact_by_phone")
       THEN Wrapped(fs1, "search_contact_by_phone")
       ELSE IF tryEmail /\ Fails(F, "search_contact_by_email")
       THEN Wrapped(fs2, "search_contact_by_email")
       ELSE LinkOrCreate(wo, stage, conv_id, cust, found, fs2, F)
FindContact(wo, stage, conv_id, cust, fs, F) ==
    LET fs1 == IF cust.phone # None THEN Call(fs, "search_contact_by_phone") ELSE fs
        byPhone == IF cust.phone # None
                   THEN search_contact_by_phone(fs.tgt, cust.phone) ELSE NoContact
        tryEmail == byPhone = NoContact /\ cust.email # None
        fs2 == IF tryEmail THEN Call(fs1, "search_contact_by_email") ELSE fs1
        found == IF tryEmail THEN search_contact_by_email(fs.tgt, cust.email)
                 ELSE byPhone
    IN IF cust.phone # None /\ Fails(F, "search_contact_by_phone")
       THEN Wrapped(fs1, "search_contact_by_phone")
       ELSE IF tryEmail /\ Fails(F, "search_contact_by_email")
       THEN Wrapped(fs2, "search_contact_by_email")
       ELSE LinkOrCreate(wo, stage, conv_id, cust, found, fs2, F)

\* get_customer_by_id: the customer, or None on 404
get_customer_by_id(customer_id) ==
    IF customer_id \in DOMAIN SFCustomers THEN SFCustomers[customer_id] ELSE NoCustomer

\* Step 1: fetch and validate the Source customer
WithCustomer_Mutant(wo, work_type, stage, conv_id, fs, F) ==
    LET fs1 == Call(fs, "get_customer_by_id")
        cust == get_customer_by_id(wo.customer_id)
    IN IF Fails(F, "get_customer_by_id") THEN Wrapped(fs1, "get_customer_by_id")
       ELSE IF cust = NoCustomer
       THEN Outcome(fs1, "raised", JobSyncError("medium", FullContext, None))
       ELSE FindContact(wo, stage, conv_id, cust, fs1, F)
WithCustomer_NoRaise(wo, work_type, stage, conv_id, fs, F) ==
    LET fs1 == Call(fs, "get_customer_by_id")
        cust == get_customer_by_id(wo.customer_id)
    IN IF Fails(F, "get_customer_by_id") THEN Wrapped(fs1, "get_customer_by_id")
       ELSE IF cust.phone = None /\ cust.email = None
       THEN LET sent == send_error(Note("sync_work_order_to_ghl", "low", 1), F.slack)
                fs2 == [fs1 EXCEPT !.notes = @ \o sent.notes]
            IN IF sent.raised THEN Wrapped(fs2, "send_error")
               ELSE Outcome(fs2, "skip_nocontact", NoErr)
       ELSE FindContact(wo, stage, conv_id, cust, fs1, F)
WithCustomer(wo, work_type, stage, conv_id, fs, F) ==
    LET fs1 == Call(fs, "get_customer_by_id")
        cust == get_customer_by_id(wo.customer_id)
    IN IF Fails(F, "get_customer_by_id") THEN Wrapped(fs1, "get_customer_by_id")
       ELSE IF cust = NoCustomer
       THEN Outcome(fs1, "raised", JobSyncError("medium", FullContext, None))
       ELSE IF cust.phone = None /\ cust.email = None
       THEN LET sent == send_error(Note("sync_work_order_to_ghl", "low", 1), F.slack)
                fs2 == [fs1 EXCEPT !.notes = @ \o sent.notes]
            IN IF sent.raised THEN Wrapped(fs2, "send_error")
               ELSE Outcome(fs2, "skip_nocontact", NoErr)
       ELSE FindContact(wo, stage, conv_id, cust, fs1, F)

sync_work_order_to_ghl_Mutant(wo, work_type, estFeed, tgt, F) ==
    LET conv == IF work_type = "Job"
                THEN find_converted_estimate_for_job(wo, estFeed, F)
                ELSE NoConversion
        stage == StageMapGet(wo.status)
        fs0 == Flow(tgt, conv.calls, conv.notes, conv.id)
        fs == [fs0 EXCEPT !.stage = stage]
    IN IF conv.raised THEN Outcome(fs0, "raised", RawError("ValueError", "created_at"))
       ELSE WithCustomer(wo, work_type, stage, conv.id, fs, F)
sync_work_order_to_ghl_HiddenState(wo, work_type, estFeed, tgt, F) ==
    LET conv == IF work_type = "Job"
                THEN find_converted_estimate_for_job(wo, estFeed, F)
                ELSE NoConversion
        stage == IF StageMapGet(wo.status) # None /\ tgt.opps # {}
                 THEN "ghl_stage_review_referral"
                 ELSE StageMapGet(wo.status)
        fs0 == Flow(tgt, conv.calls, conv.notes, conv.id)
        fs == [fs0 EXCEPT !.stage = stage]
    IN IF conv.raised THEN Outcome(fs0, "raised", RawError("ValueError", "created_at"))
       ELSE IF stage = None THEN Outcome(fs, "skip_status", NoErr)
       ELSE WithCustomer(wo, work_type, stage, conv.id, fs, F)
sync_work_order_to_ghl(wo, work_type, estFeed, tgt, F) ==
    LET conv == IF work_type = "Job"
                THEN find_converted_estimate_for_job(wo, estFeed, F)
                ELSE NoConversion
        stage == StageMapGet(wo.status)
        fs0 == Flow(tgt, conv.calls, conv.notes, conv.id)
        fs == [fs0 EXCEPT !.stage = stage]
    IN IF conv.raised THEN Outcome(fs0, "raised", RawError("ValueError", "created_at"))
       ELSE IF stage = None THEN Outcome(fs, "skip_status", NoErr)
       ELSE WithCustomer(wo, work_type, stage, conv.id, fs, F)

-----------------------------------------------------------------------------
(* Cursor and counter store: StateManager over sync_state.json *)

\* timedelta(hours=24) of the fallback
LookbackHours == 24

\* data.get(key) answering None, and a stored string fromisoformat rejects
Missing == 0 - 1
JunkCursor == 0 - 2

CursorKey(kind) ==
    CASE kind = "customers" -> "last_sf_poll"
      [] kind = "estimates" -> "last_estimate_poll"
      [] kind = "jobs" -> "last_job_poll"

ChecksKey(kind) ==
    CASE kind = "customers" -> "total_checks"
      [] kind = "estimates" -> "total_estimate_checks"
      [] kind = "jobs" -> "total_job_checks"

FoundKey(kind) ==
    CASE kind = "customers" -> "total_updates_found"
      [] kind = "estimates" -> "total_estimate_updates_found"
      [] kind = "jobs" -> "total_job_updates_found"

StateKeys ==
    {CursorKey(k) : k \in Kinds} \cup {ChecksKey(k) : k \in Kinds}
        \cup {FoundKey(k) : k \in Kinds} \cup {"last_check"}

\* the JSON object {}: no key present
EmptyDict == [k \in StateKeys |-> Missing]

\* the file does not exist / holds something json.load rejects
AbsentFile == [status |-> "absent", data |-> EmptyDict]
InvalidFile == [status |-> "invalid", data |-> EmptyDict]

GetterName(kind) ==
    CASE kind = "customers" -> "get_last_poll_time"
      [] kind = "estimates" -> "get_last_estimate_poll_time"
      [] kind = "jobs" -> "get_last_job_poll_time"

Fallback(t, notes) == [since |-> t - LookbackHours, notes |-> notes]

\* the file holds a cursor for the kind that can be read back
HasCursor(f, kind) ==
    f.status = "valid" /\ f.data[CursorKey(kind)] \notin {Missing, JunkCursor}

\* get_last_customer_poll_time / get_last_job_poll_time /
\* get_last_estimate_poll_time at clock t: the since value and the
\* notification scheduled
get_last_poll_time_NoLookback(kind, f, t) ==
    IF f.status = "absent" THEN Fallback(t, <<>>)
    ELSE IF f.status = "invalid" THEN Fallback(t, <<Note(GetterName(kind), "low", 1)>>)
    ELSE LET last_poll_str == f.data[CursorKey(kind)]
         IN IF last_poll_str \in {Missing, JunkCursor} THEN [since |-> t, notes |-> <<>>]
            ELSE [since |-> last_poll_str, notes |-> <<>>]
get_last_poll_time_Mutant(kind, f, t) == Fallback(t, <<>>)
get_last_poll_time(kind, f, t) ==
    IF f.status = "absent" THEN Fallback(t, <<>>)
    ELSE IF f.status = "invalid" THEN Fallback(t, <<Note(GetterName(kind), "low", 1)>>)
    ELSE LET last_poll_str == f.data[CursorKey(kind)]
         IN IF last_poll_str = Missing THEN Fallback(t, <<>>)
            ELSE IF last_poll_str = JunkCursor
            THEN Fallback(t, <<Note(GetterName(kind), "low", 1)>>)
            ELSE [since |-> last_poll_str, notes |-> <<>>]

\* save_last_poll_time / save_last_job_poll_time / save_last_estimate_poll_time:
\* json.load of an existing file raises when it is not valid JSON
save_last_poll_time_Overwrites(kind, f, dt) ==
    IF f.status = "invalid" THEN [file |-> f, raised |-> TRUE]
    ELSE [file |-> [status |-> "valid",
                    data |-> [EmptyDict EXCEPT ![CursorKey(kind)] = dt]],
          raised |-> FALSE]
save_last_poll_time(kind, f, dt) ==
    IF f.status = "invalid" THEN [file |-> f, raised |-> TRUE]
    ELSE [file |-> [status |-> "valid",
                    data |-> [f.data EXCEPT ![CursorKey(kind)] = dt]],
          raised |-> FALSE]

\* stats.get(key, 0)
StatsGet(stats, key) == IF stats[key] = Missing THEN 0 ELSE stats[key]

get_stats(f) == f.data

\* update_stats(**kwargs): kwargs as a set of <<key, value>> pairs; get_stats
\* raises on a file that is not valid JSON, before anything is written
update_stats(f, kwargs) ==
    IF f.status = "invalid" THEN f
    ELSE [status |-> "valid",
          data |-> [k \in StateKeys |->
                      IF \E kv \in kwargs : kv[1] = k
                      THEN (CHOOSE kv \in kwargs : kv[1] = k)[2]
                      ELSE get_stats(f)[k]]]

\* "UPDATE STATE AND STATS" at the end of a pass, at clock t, n records listed
FinishPass_Mutant(kind, f, t, n) ==
    LET saved == save_last_poll_time(kind, f, t)
        stats == get_stats(saved.file)
        kwargs == {<<ChecksKey(kind), StatsGet(stats, ChecksKey(kind)) + 1>>,
                   <<FoundKey(kind), StatsGet(stats, FoundKey(kind)) + n>>}
    IN IF n = 0 THEN [file |-> f, raised |-> FALSE]
       ELSE IF saved.raised THEN saved
       ELSE [file |-> update_stats(saved.file, kwargs), raised |-> FALSE]
FinishPass(kind, f, t, n) ==
    LET saved == save_last_poll_time(kind, f, t)
        stats == get_stats(saved.file)
        kwargs == {<<ChecksKey(kind), StatsGet(stats, ChecksKey(kind)) + 1>>,
                   <<FoundKey(kind), StatsGet(stats, FoundKey(kind)) + n>>}
                  \cup (IF kind = "customers" THEN {<<"last_check", t>>} ELSE {})
    IN IF saved.raised THEN saved
       ELSE [file |-> update_stats(saved.file, kwargs), raised |-> FALSE]

-----------------------------------------------------------------------------
(* The scheduler's position and the locals of a pass *)

\* ticks of the scheduler
MaxTicks == 2
\* the scheduler's interval (sync_interval_minutes), in hours
SyncIntervalHours == 1

\* the hour the conversion happened, as the Source states it
ConvWall == 20

\* the clock when the process starts
StartHour == ConvWall + 10

PassAt(k, phase) == [pass |-> k, phase |-> phase]
Idle == PassAt("idle", "begin")
Crashed == PassAt("crashed", "begin")

NoSrc == [k \in Kinds |-> <<>>]

NoRun ==
    [kind |-> None, since |-> 0, stored |-> FALSE, listed |-> <<>>, idx |-> 1,
     attempted |-> <<>>, sync_errors |-> <<>>, notes |-> <<>>,
     result |-> "none", cause |-> None, undelivered |-> FALSE,
     unreadable |-> FALSE, context |-> <<>>]

NoLast ==
    [k \in Kinds |-> [result |-> "none", since |-> 0, stored |-> FALSE,
                     listed |-> <<>>]]

NoCall == [called |-> FALSE]
NoInput == [used |-> FALSE]

\* the intake endpoint's variables while it is not exercised
HookIdle ==
    /\ hIn = NoInput
    /\ hOut = NoCall

\* the runs of run_all_syncs: the one lifespan awaits at startup and the
\* instance of the scheduler's interval job
Runs == {"startup", "interval"}
NoTasks == [t \in Runs |-> [pc |-> Idle, since |-> 0]]

\* the scheduler's variables while a function is exercised alone
OrchIdle ==
    /\ src = NoSrc
    /\ now = StartHour
    /\ file = AbsentFile
    /\ pc = Idle
    /\ tick = 0
    /\ run = NoRun
    /\ tickLog = <<>>
    /\ last = NoLast
    /\ tasks = NoTasks

-----------------------------------------------------------------------------
(* Specification of the lister alone: inputs drawn in Init, one call *)

TsAlphabet == {Ts(1), Ts(2), Ts(3), JunkTs}

Feeds == UNION {[1..n -> TsAlphabet] : n \in 0..MaxFeed}

MkFeed(f) == [i \in 1..Len(f) |-> [id |-> i, updated_at |-> f[i]]]

ListInputs ==
    [kind : Kinds, feed : {MkFeed(f) : f \in Feeds}, since : {2, 7},
     max_results : {1, ConversionMaxResults, DefaultMaxResults}, failAt : {0, 2}]


InitList ==
    /\ HookIdle
    /\ lIn \in ListInputs
    /\ lOut = NoCall
    /\ sIn = NoInput
    /\ sLog = <<>>
    /\ target = EmptyTarget
    /\ OrchIdle

ListCall ==
    /\ lOut = NoCall
    /\ lOut' = [called |-> TRUE,
                res |-> GetUpdated(lIn.kind, lIn.feed, lIn.since, lIn.max_results,
                                   lIn.failAt)]
    /\ UNCHANGED <<lIn, syncVars, target, orchVars, hookVars>>

NextList == ListCall

SpecList == InitList /\ [][NextList]_vars

-----------------------------------------------------------------------------
(* Specification of the work-order flow alone: one work order, MaxCalls   *)
(* consecutive calls of sync_work_order_to_ghl on it                       *)

WorkOrder(id, customer_id, status, updated_at, created_at) ==
    [id |-> id, number |-> id + 100, customer_id |-> customer_id, status |-> status,
     updated_at |-> updated_at, created_at |-> created_at]

Estimate(id, customer_id, status, wall) ==
    WorkOrder(id, customer_id, status, Ts(wall), NoTs)

EstWon == Estimate(11, 1, "Estimate Won", ConvWall)
EstWonTwin == Estimate(12, 1, "Estimate Won", ConvWall)
EstOld == Estimate(13, 2, "Lost", ConvWall - 10)
EstJunk == WorkOrder(14, 2, "Lost", JunkTs, NoTs)
EstNewer(i) == Estimate(30 + i, 2, "Estimate Provided", ConvWall + 1)

\* the Source's estimate listing, newest first
EstFeeds ==
    { <<>>,
      <<EstWon>>,
      <<EstWon, EstOld>>,
      <<EstNewer(1), EstWon>>,
      <<EstJunk, EstWon>>,
      <<EstWonTwin, EstWon>>,
      [i \in 1..PageSize |-> EstNewer(i)] \o <<EstWon>> }

SyncJobs ==
    { WorkOrder(21, c, st, Ts(ConvWall), cr) :
        c \in 1..5, st \in {"Scheduled", "Invoiced"},
        cr \in {Ts(ConvWall), Ts(ConvWall - 1)} }

SyncEstimates ==
    { Estimate(11, c, st, ConvWall) :
        c \in {1, 3, 4}, st \in {"Estimate Won", "Estimate Scheduled"} }

SyncInputs ==
    [wo : SyncJobs, work_type : {"Job"}, estFeed : EstFeeds]
    \cup [wo : SyncEstimates, work_type : {"Estimate"}, estFeed : {<<EstWon>>}]

Contact1 == [id |-> 1, phone |-> "p1", email |-> "e1", link |-> Str(NoId)]
ContactEmailOnly == [id |-> 1, phone |-> None, email |-> "e1", link |-> Str(NoId)]
Opp(id, contact_id, sf_id, stage) ==
    [id |-> id, contact |-> contact_id, tag |-> Str(sf_id), stage |-> stage]

InitTargets ==
    { EmptyTarget,
      [contacts |-> {Contact1}, opps |-> {}],
      [contacts |-> {ContactEmailOnly},
       opps |-> {Opp(1, 1, 11, "ghl_stage_estimate_stop")}],
      [contacts |-> {Contact1}, opps |-> {Opp(1, 1, 11, "ghl_stage_estimate_stop")}],
      [contacts |-> {Contact1}, opps |-> {Opp(1, 1, 11, "ghl_stage_job_scheduled")}],
      [contacts |-> {Contact1},
       opps |-> {Opp(1, 1, 11, "ghl_stage_estimate_stop"),
                 Opp(2, 1, 11, "ghl_stage_estimate_stop")}] }

FailureModes ==
    [est : BOOLEAN,
     call : {None, "no_contact_id", "get_customer_by_id"} \cup TargetCalls,
     slack : Deliveries]

InitSync ==
    /\ HookIdle
    /\ sIn \in SyncInputs
    /\ target \in InitTargets
    /\ sLog = <<>>
    /\ lIn = NoInput
    /\ lOut = NoCall
    /\ OrchIdle

SyncCall ==
    /\ Len(sLog) < MaxCalls
    /\ \E F \in FailureModes :
         LET res == sync_work_order_to_ghl(sIn.wo, sIn.work_type, sIn.estFeed, target, F)
         IN /\ target' = res.tgt
            /\ sLog' = Append(sLog, [pre |-> target, res |-> res, est |-> F.est])
    /\ UNCHANGED <<listVars, sIn, orchVars, hookVars>>

NextSync == SyncCall

SpecSync == InitSync /\ [][NextSync]_vars

-----------------------------------------------------------------------------
(* Intake endpoint: POST /sync_ghl_to_service_fusion *)

\* a phone of the request body: an optional "+", an optional country code 1
\* in front of the ten-digit number nat
Phone(plus, cc, nat) == [plus |-> plus, cc |-> cc, nat |-> nat]

\* data.get("phone") answering None
NoPhone == Phone(FALSE, FALSE, None)

\* phone.lstrip("+"), then the leading 1 of an 11-digit number dropped; None
\* when the request has no phone
clean_phone(phone) == phone.nat

\* the sf_customer_id values of a request: absent, empty, the id of an
\* existing customer, the id of no customer, and a string int() rejects
RequestIds == {None, "", "1", "4", "abc"}

IsTruthy(v) == v # None /\ v # ""

IsNumeric(v) == v \in {"1", "4"}

IntOf(v) == IF v = "1" THEN 1 ELSE 4

\* data.get("customData", {}): the key absent, a JSON object, or JSON null
CustomDataKinds == {"absent", "object", "null"}

IntakeRequests ==
    [sf_customer_id : RequestIds,
     email : {None, "e1"},
     phone : {NoPhone, Phone(TRUE, TRUE, "p1"), Phone(FALSE, FALSE, "p5")},
     customData : CustomDataKinds]

\* the Source as the endpoint meets it: the customer its email/phone search
\* answers first (NoId: none), the call that raises (None: none does), and
\* what the webhook does with notifications
IntakeFailures ==
    {None, "get_customer_by_id", "find_customer_by_email_or_phone",
     "create_customer", "create_job:HTTPStatusError", "create_job:other"}

IntakeEnvs == [found : {NoId, 2}, fails : IntakeFailures, slack : Deliveries]

\* the id the Source gives a customer it creates
NewCustomerId == 9

NewJobId == 41

IntakeNote(step, severity) ==
    Note("sync_ghl_to_service_fusion - " \o step, severity, 1)

IntakeStart ==
    [calls |-> <<>>, notes |-> <<>>, customer_id |-> NoId, created |-> FALSE]

\* find_customer_by_email_or_phone: items[0] of the filtered listing, or
\* None; any exception is reported as critical and re-raised
find_customer_by_email_or_phone(st, E) ==
    LET st1 == [st EXCEPT !.calls = Append(@, "find_customer_by_email_or_phone")]
    IN IF E.fails = "find_customer_by_email_or_phone"
       THEN [st |-> [st1 EXCEPT !.notes = @ \o
                        send_error(Note("find_customer_by_email_or_phone", "critical", 1),
                                   E.slack).notes],
             raised |-> TRUE]
       ELSE [st |-> [st1 EXCEPT !.customer_id = E.found], raised |-> FALSE]

\* STEP 1, "Try to use existing SF customer ID"
IntakeById(req, st, E) ==
    IF ~IsTruthy(req.sf_customer_id) THEN [st |-> st, raised |-> FALSE]
    ELSE IF ~IsNumeric(req.sf_customer_id) THEN [st |-> st, raised |-> TRUE]
    ELSE LET st1 == [st EXCEPT !.calls = Append(@, "get_customer_by_id")]
         IN IF E.fails = "get_customer_by_id" THEN [st |-> st1, raised |-> TRUE]
            ELSE [st |-> [st1 EXCEPT !.customer_id =
                             get_customer_by_id(IntOf(req.sf_customer_id)).id],
                  raised |-> FALSE]

\* STEP 1, "Search by email/phone if no ID or customer not found"
IntakeBySearch(req, r, E) ==
    IF r.raised \/ r.st.customer_id # NoId THEN r
    ELSE find_customer_by_email_or_phone(r.st, E)

\* STEP 1, "Create new customer if still not found"
IntakeCreate(req, r, E) ==
    IF r.raised \/ r.st.customer_id # NoId THEN r
    ELSE LET st1 == [r.st EXCEPT !.calls = Append(@, "create_customer")]
         IN IF E.fails = "create_customer" THEN [st |-> st1, raised |-> TRUE]
            ELSE [st |-> [st1 EXCEPT !.customer_id = NewCustomerId, !.created = TRUE],
                  raised |-> FALSE]

\* STEP 1: find or create the customer
FindOrCreateCustomer(req, E) ==
    IntakeCreate(req, IntakeBySearch(req, IntakeById(req, IntakeStart, E), E), E)

\* STEP 2: build the job payload and create the job; the payload is built
\* inside the try, and reading customData as a dict raises when it is null
CreateJob(req, st, E) ==
    IF req.customData = "null"
    THEN [st |-> [st EXCEPT !.notes = @ \o
                     send_error(IntakeNote("job_creation", "high"), E.slack).notes],
          job_id |-> NoId]
    ELSE LET st1 == [st EXCEPT !.calls = Append(@, "create_job:Scheduled")]
         IN IF E.fails \in {"create_job:HTTPStatusError", "create_job:other"}
            THEN [st |-> [st1 EXCEPT !.notes = @ \o
                             send_error(IntakeNote("job_creation", "high"),
                                        E.slack).notes],
                  job_id |-> NoId]
            ELSE [st |-> st1, job_id |-> NewJobId]

NoResponse ==
    [status |-> None, customer_id |-> NoId, customer_created |-> FALSE,
     job_created |-> FALSE, job_id |-> NoId]

\* the handler: the calls it made, the notifications it sent, the HTTP status
\* and the response body
sync_ghl_to_service_fusion(req, E) ==
    LET c == FindOrCreateCustomer(req, E)
        j == CreateJob(req, c.st, E)
    IN IF c.raised
       THEN [calls |-> c.st.calls,
             notes |-> c.st.notes \o
                         send_error(IntakeNote("customer_creation", "critical"),
                                    E.slack).notes,
             created |-> c.st.created,
             http |-> 500,
             response |-> NoResponse]
       ELSE [calls |-> j.st.calls,
             notes |-> j.st.notes,
             created |-> c.st.created,
             http |-> 200,
             response |-> [status |-> "success",
                           customer_id |-> c.st.customer_id,
                           customer_created |-> req.sf_customer_id = None,
                           job_created |-> j.job_id # NoId,
                           job_id |-> j.job_id]]

-----------------------------------------------------------------------------
(* Specification of the intake endpoint alone: one request, one call *)

InitIntake ==
    /\ hIn \in IntakeRequests
    /\ hOut = NoCall
    /\ lIn = NoInput
    /\ lOut = NoCall
    /\ sIn = NoInput
    /\ sLog = <<>>
    /\ target = EmptyTarget
    /\ OrchIdle

IntakeCall ==
    /\ hOut = NoCall
    /\ \E E \in IntakeEnvs :
         hOut' = [called |-> TRUE, env |-> E, res |-> sync_ghl_to_service_fusion(hIn, E)]
    /\ UNCHANGED <<hIn, listVars, syncVars, target, orchVars>>

NextIntake == IntakeCall

SpecIntake == InitIntake /\ [][NextIntake]_vars

-----------------------------------------------------------------------------
(* Sync orchestrator: the three passes and the tick that runs them *)

\* handle_sf_customer_update: upsert the contact with the link custom field
handle_sf_customer_update(customer, tgt, F) ==
    LET fs == Flow(tgt, <<>>, <<>>, NoId)
        fs1 == Call(fs, "upsert_contact")
        up == upsert_contact(tgt, [phone |-> customer.phone, email |-> customer.email,
                                   link |-> Str(customer.id)])
    IN IF customer.phone = None /\ customer.email = None
       THEN Outcome(fs, "skip_nocontact", NoErr)
       ELSE IF Fails(F, "upsert_contact")
       THEN Outcome(fs1, "raised", RawError("HTTPError", "upsert_contact"))
       ELSE Outcome([fs1 EXCEPT !.tgt = up.tgt, !.contact_id = up.id], "synced", NoErr)

\* the per-record call in the loop of each pass
SyncRecord(kind, rec, estFeed, tgt, F) ==
    CASE kind = "customers" -> handle_sf_customer_update(rec, tgt, F)
      [] kind = "estimates" -> sync_work_order_to_ghl(rec, "Estimate", estFeed, tgt, F)
      [] kind = "jobs" -> sync_work_order_to_ghl(rec, "Job", estFeed, tgt, F)

\* the except clauses around the per-record call: "except Exception"
\* (the job pass: "except JobSyncError", then "except Exception")
PassCatches_Mutant(kind, err) == err.type = "JobSyncError"
PassCatches(kind, err) == err.type # None

PassName(kind) ==
    CASE kind = "customers" -> "check_for_customer_updates"
      [] kind = "estimates" -> "check_for_estimate_updates"
      [] kind = "jobs" -> "check_for_job_updates"

ListerName(kind) ==
    CASE kind = "customers" -> "get_updated_customers"
      [] kind = "estimates" -> "get_updated_estimates"
      [] kind = "jobs" -> "get_updated_jobs"

WrapperName(kind) ==
    CASE kind = "customers" -> "scheduled_job:check_for_customer_updates"
      [] kind = "estimates" -> "scheduled_job:check_for_estimate_updates"
      [] kind = "jobs" -> "scheduled_job:check_for_job_updates"

\* "if sync_errors: await slack_notifier.send_error(... MEDIUM ...)"
BatchNotes_Mutant(kind, sync_errors) ==
    <<Note(PassName(kind), "medium", Len(sync_errors))>>
BatchNotes(kind, sync_errors) ==
    IF sync_errors # <<>>
    THEN <<Note(PassName(kind), "medium", Len(sync_errors))>>
    ELSE <<>>

\* the "[:5]" of the failure contexts
BatchExamples == 5

\* the failure contexts the batched notification carries: failed_jobs and
\* failed_estimates are sync_errors[:5], failed_customers is sync_errors
BatchContexts(kind, sync_errors) ==
    IF kind = "customers" THEN sync_errors
    ELSE SubSeq(sync_errors, 1, Min(BatchExamples, Len(sync_errors)))

\* safe_scheduled_job: what the wrapper does with the outcome of the body
safe_scheduled_job_Mutant(kind, raised, notes, D) ==
    [notes |-> notes, propagates |-> raised]
safe_scheduled_job(kind, raised, notes, D) ==
    LET sent == send_error(Note(WrapperName(kind), "high", 1), D)
    IN [notes |-> IF raised THEN notes \o sent.notes ELSE notes,
        propagates |-> raised /\ sent.raised]

\* run_all_syncs: customers, then estimates, then jobs
NextPass_Mutant(kind) ==
    CASE kind = "customers" -> "jobs"
      [] kind = "jobs" -> "estimates"
      [] kind = "estimates" -> "idle"
NextPass(kind) ==
    CASE kind = "customers" -> "estimates"
      [] kind = "estimates" -> "jobs"
      [] kind = "jobs" -> "idle"

\* where run_all_syncs stands once the wrapped pass has returned or raised
Leave(kind, propagates) ==
    IF propagates THEN Crashed
    ELSE IF NextPass(kind) = "idle" THEN Idle
    ELSE PassAt(NextPass(kind), "begin")

Event(ev, kind, id) == [ev |-> ev, kind |-> kind, id |-> id]

\* the pass is over: what is remembered of it
Ended(r) ==
    [result |-> r.result, since |-> r.since, stored |-> r.stored,
     listed |-> r.listed]

\* the Source's listings the scheduler is run on
CustRec(i) ==
    [id |-> i, updated_at |-> Ts(ConvWall), phone |-> SFCustomers[i].phone,
     email |-> SFCustomers[i].email]
EstOrphan == Estimate(15, 4, "Estimate Provided", ConvWall)
JobFresh == WorkOrder(21, 1, "Scheduled", Ts(ConvWall), Ts(ConvWall))
JobOrphan == WorkOrder(22, 4, "Scheduled", Ts(ConvWall), Ts(ConvWall - 1))
\* work orders of customer 3, who has neither phone nor email, and a freshly
\* created job whose status is not in the stage table
EstNoContact == Estimate(16, 3, "Estimate Provided", ConvWall)
JobNoContact == WorkOrder(23, 3, "Scheduled", Ts(ConvWall), Ts(ConvWall))
JobUnmapped == WorkOrder(24, 1, "Invoiced", Ts(ConvWall), Ts(ConvWall))

Sources ==
    { NoSrc,
      [customers |-> <<CustRec(1)>>, estimates |-> <<EstWon>>, jobs |-> <<JobFresh>>],
      [customers |-> <<CustRec(1), CustRec(2)>>, estimates |-> <<EstOrphan, EstWon>>,
       jobs |-> <<JobOrphan, JobFresh>>],
      [customers |-> <<CustRec(3), CustRec(1)>>, estimates |-> <<EstNoContact, EstJunk, EstWon>>,
       jobs |-> <<JobUnmapped, JobNoContact>>] }

\* a state file left by earlier completed passes
SeededFile ==
    [status |-> "valid",
     data |-> [k \in StateKeys |->
                 IF k \in {CursorKey(kind) : kind \in Kinds} \cup {"last_check"}
                 THEN ConvWall - 5 ELSE 1]]

\* a state file whose cursors hold strings that fromisoformat rejects (a
\* foreign write that left it valid JSON)
GarbledFile(f) ==
    [f EXCEPT !.data = [k \in StateKeys |->
                          IF k \in {CursorKey(kind) : kind \in Kinds}
                          THEN JunkCursor ELSE @[k]]]

\* the calls that may fail while a pass syncs a record
PassFailureModes ==
    [est : BOOLEAN, call : {None}, slack : Deliveries] \cup
    [est : {FALSE},
     call : {"upsert_contact", "create_opportunity", "update_opportunity_custom_field"},
     slack : Deliveries]

Init ==
    /\ HookIdle
    /\ src \in Sources
    /\ now = StartHour
    /\ file \in {AbsentFile, SeededFile, GarbledFile(SeededFile)}
    /\ target = EmptyTarget
    /\ pc = Idle
    /\ tick = 0
    /\ run = NoRun
    /\ tickLog = <<>>
    /\ last = NoLast
    /\ tasks = NoTasks
    /\ lIn = NoInput
    /\ lOut = NoCall
    /\ sIn = NoInput
    /\ sLog = <<>>

\* run_all_syncs begins: at process start, then once per scheduler interval
TickStart ==
    /\ pc = Idle
    /\ tick < MaxTicks
    /\ tick' = tick + 1
    /\ now' = IF tick = 0 THEN now ELSE now + SyncIntervalHours
    /\ pc' = PassAt("customers", "begin")
    /\ tickLog' = <<>>
    /\ UNCHANGED <<listVars, syncVars, hookVars, tasks, target, src, file, run, last>>

\* a notification went out in this step and its delivery failed
Undelivered(before, after, D) == D # "ok" /\ Len(after) > Len(before)

\* the variables a step of a pass may change
ApplyOutcome(o) ==
    /\ run' = o.run
    /\ pc' = o.pc
    /\ last' = o.last
    /\ tickLog' = o.tickLog
    /\ target' = o.target
    /\ file' = o.file

\* the pass up to its loop: read the cursor, list the updated records; a
\* listing that raises ends the pass in the wrapper
PassBeginOutcome(k, failAt, D) ==
    LET got == get_last_poll_time(k, file, now)
        res == GetUpdated(k, src[k], got.since, DefaultMaxResults, failAt)
        sent == Notify(IF res.notified > 0
                       THEN <<Note(ListerName(k), "low", Len(res.bad))>> ELSE <<>>, D)
        raised == res.raised \/ sent.raised
        w == safe_scheduled_job(k, raised, got.notes \o sent.notes, D)
        r == [NoRun EXCEPT !.kind = k, !.since = got.since, !.stored = HasCursor(file, k),
                           !.listed = IF raised THEN <<>> ELSE res.items,
                           !.notes = w.notes,
                           !.result = IF raised THEN "fatal" ELSE "running",
                           !.cause = IF raised THEN "listing" ELSE None,
                           !.undelivered = Undelivered(<<>>, w.notes, D),
                           !.unreadable = file.status = "invalid"]
    IN [run |-> r,
        pc |-> IF raised THEN Leave(k, w.propagates) ELSE PassAt(k, "loop"),
        last |-> IF raised THEN [last EXCEPT ![k] = Ended(r)] ELSE last,
        tickLog |-> tickLog \o <<Event("begin", k, NoId)>> \o
                      (IF raised THEN <<Event("end", k, NoId)>> ELSE <<>>),
        target |-> target,
        file |-> file]

PassBegin(k) ==
    /\ pc = PassAt(k, "begin")
    /\ \E failAt \in {0, 1}, D \in Deliveries : ApplyOutcome(PassBeginOutcome(k, failAt, D))
    /\ UNCHANGED <<listVars, syncVars, hookVars, tasks, src, now, tick>>

\* the body of the loop for record rec, whose sync ended as res: count the
\* record, collect its failure, or leave the pass if the failure is not caught
LoopOutcome(k, rec, res, D) ==
    LET raised == res.outcome = "raised"
        escapes == raised /\ ~PassCatches(k, res.err)
        w == safe_scheduled_job(k, escapes, run.notes \o res.notes, D)
        r == [run EXCEPT !.idx = @ + 1,
                         !.attempted = Append(@, rec.id),
                         !.sync_errors = IF raised /\ ~escapes
                                         THEN Append(@, rec.id) ELSE @,
                         !.notes = w.notes,
                         !.result = IF escapes THEN "fatal" ELSE @,
                         !.cause = IF escapes THEN "record" ELSE @,
                         !.undelivered = Undelivered(run.notes, w.notes, D)]
    IN [run |-> r,
        pc |-> IF escapes THEN Leave(k, w.propagates) ELSE pc,
        last |-> IF escapes THEN [last EXCEPT ![k] = Ended(r)] ELSE last,
        tickLog |-> tickLog \o <<Event("record", k, rec.id)>> \o
                      (IF escapes THEN <<Event("end", k, NoId)>> ELSE <<>>),
        target |-> res.tgt,
        file |-> file]

\* one iteration of the loop: sync the next record, collect its failure
PassRecord(k) ==
    /\ pc = PassAt(k, "loop")
    /\ run.idx <= Len(run.listed)
    /\ \E F \in PassFailureModes :
         ApplyOutcome(LoopOutcome(k, run.listed[run.idx],
                                  SyncRecord(k, run.listed[run.idx], src["estimates"],
                                             target, F),
                                  F.slack))
    /\ UNCHANGED <<listVars, syncVars, hookVars, tasks, src, now, tick>>

\* the pass after its loop: the batched notification, the cursor, the counters
PassEndOutcome(k, D) ==
    LET sent == Notify(BatchNotes(k, run.sync_errors), D)
        fin == IF sent.raised THEN [file |-> file, raised |-> TRUE]
               ELSE FinishPass(k, file, now, Len(run.listed))
        w == safe_scheduled_job(k, fin.raised, run.notes \o sent.notes, D)
        r == [run EXCEPT !.notes = w.notes,
                         !.result = IF fin.raised THEN "fatal" ELSE "completed",
                         !.cause = IF sent.raised THEN "notify"
                                   ELSE IF fin.raised THEN "state" ELSE @,
                         !.undelivered = Undelivered(run.notes, w.notes, D),
                         !.context = IF run.sync_errors # <<>>
                                     THEN BatchContexts(k, run.sync_errors) ELSE <<>>]
    IN [run |-> r,
        pc |-> Leave(k, w.propagates),
        last |-> [last EXCEPT ![k] = Ended(r)],
        tickLog |-> Append(tickLog, Event("end", k, NoId)),
        target |-> target,
        file |-> fin.file]

PassEnd(k) ==
    /\ pc = PassAt(k, "loop")
    /\ run.idx > Len(run.listed)
    /\ \E D \in Deliveries : ApplyOutcome(PassEndOutcome(k, D))
    /\ UNCHANGED <<listVars, syncVars, hookVars, tasks, src, now, tick>>

\* only the head of a pass (cursor read) and its tail (cursor save) look at
\* the state file: a change of it at any earlier moment is the same as one
\* just before them
ReadsEnvironmentNext ==
    /\ pc.pass \in Kinds
    /\ pc.phase = "begin" \/ run.idx > Len(run.listed)

\* the state file stops being valid JSON (a torn or foreign write)
CorruptStateFile ==
    /\ ReadsEnvironmentNext
    /\ file.status # "invalid"
    /\ file' = InvalidFile
    /\ UNCHANGED <<listVars, syncVars, hookVars, tasks, target, src, now, pc, tick, run, tickLog, last>>

Next ==
    \/ TickStart
    \/ \E k \in Kinds : PassBegin(k)
    \/ \E k \in Kinds : PassRecord(k)
    \/ \E k \in Kinds : PassEnd(k)
    \/ CorruptStateFile

Spec == Init /\ [][Next]_vars

-----------------------------------------------------------------------------
(* Specification of polling against a Source that changes: the scheduler's *)
(* ticks and passes, and records updated in the Source while they run       *)

\* how many Source updates a run holds
MaxUpdates == 1

\* the updated_at string the Source gives a record updated at UTC instant t:
\* the inverse of updated_at_datetime
Stamp(kind, t) ==
    Ts(IF kind = "customers" THEN t ELSE t - SfUtcOffsetHours)

\* every Source update takes the clock two hours on, every tick after the
\* first one hour
UpdatesDone ==
    (now - StartHour - (IF tick > 1 THEN tick - 1 ELSE 0) * SyncIntervalHours) \div 2

\* the feed once its i-th record was updated at instant t: newest first
Touch(kind, feed, i, t) ==
    <<[feed[i] EXCEPT !.updated_at = Stamp(kind, t)]>> \o
    SubSeq(feed, 1, i - 1) \o SubSeq(feed, i + 1, Len(feed))

\* a user of the Source edits a record one hour after the last clock reading
\* of the program, between two ticks or while a pass is in its loop (the
\* listing done, the cursor not yet saved); the program next reads the clock
\* an hour after the edit
SourceUpdate ==
    /\ pc = Idle \/ (pc.pass \in Kinds /\ pc.phase = "loop")
    /\ UpdatesDone < MaxUpdates
    /\ \E k \in Kinds : \E i \in DOMAIN src[k] :
          src' = [src EXCEPT ![k] = Touch(k, @, i, now + 1)]
    /\ now' = now + 2
    /\ UNCHANGED <<listVars, syncVars, hookVars, tasks, target, file, pc, tick, run, tickLog, last>>

InitPoll ==
    /\ Init
    /\ src # NoSrc
    /\ file \in {AbsentFile, SeededFile}

NextPoll ==
    \/ TickStart
    \/ \E k \in Kinds : PassBegin(k)
    \/ \E k \in Kinds : PassRecord(k)
    \/ \E k \in Kinds : PassEnd(k)
    \/ SourceUpdate

SpecPoll == InitPoll /\ [][NextPoll]_vars

-----------------------------------------------------------------------------
(* Specification of the event loop: the run of run_all_syncs that lifespan *)
(* awaits at startup, the scheduler's interval job, and the clock; a pass   *)
(* is taken by its accesses to the cursor store                             *)

\* hours of clock a run holds
MaxHours == 3

\* where a run goes once a pass has returned or ended in the wrapper
AfterPass(k) ==
    IF NextPass(k) = "idle" THEN Idle ELSE PassAt(NextPass(k), "begin")

\* the interval trigger's next fire time has come; tick counts the fire
\* times that have passed
FireDue == tick < MaxTicks /\ now >= StartHour + (tick + 1) * SyncIntervalHours

InitTicks ==
    /\ HookIdle
    /\ lIn = NoInput
    /\ lOut = NoCall
    /\ sIn = NoInput
    /\ sLog = <<>>
    /\ target = EmptyTarget
    /\ src = NoSrc
    /\ now = StartHour
    /\ file \in {AbsentFile, SeededFile}
    /\ pc = Idle
    /\ tick = 0
    /\ run = NoRun
    /\ tickLog = <<>>
    /\ last = NoLast
    /\ tasks = [NoTasks EXCEPT !["startup"].pc = PassAt("customers", "begin")]

\* a pass of run t up to its first await: the cursor is read, the listing
\* requested; a listing that raises ends the pass in the wrapper
TaskBegin(t) ==
    /\ \E k \in Kinds :
         /\ tasks[t].pc = PassAt(k, "begin")
         /\ \E raises \in BOOLEAN :
              tasks' = [tasks EXCEPT
                          ![t].since = get_last_poll_time(k, file, now).since,
                          ![t].pc = IF raises THEN AfterPass(k)
                                    ELSE PassAt(k, "loop")]
    /\ UNCHANGED <<listVars, syncVars, hookVars, target, src, now, file, pc, tick, run,
                   tickLog, last>>

\* a pass of run t after its last await: one record was listed, the cursor
\* and the counters are saved
TaskEnd(t) ==
    /\ \E k \in Kinds :
         /\ tasks[t].pc = PassAt(k, "loop")
         /\ file' = FinishPass(k, file, now, 1).file
         /\ tasks' = [tasks EXCEPT ![t].pc = AfterPass(k)]
    /\ UNCHANGED <<listVars, syncVars, hookVars, target, src, now, pc, tick, run,
                   tickLog, last>>

\* an hour passes while the runs wait at their await points; a due timer is
\* served first
ClockTick ==
    /\ now < StartHour + MaxHours
    /\ ~FireDue
    /\ now' = now + 1
    /\ UNCHANGED <<listVars, syncVars, hookVars, target, src, file, pc, tick, run,
                   tickLog, last, tasks>>

\* the interval job's fire time: the scheduler starts an instance unless one
\* instance of the job is still running (max_instances is 1); the run that
\* lifespan awaits is no instance of the job
IntervalFire ==
    /\ FireDue
    /\ tick' = tick + 1
    /\ tasks' = IF tasks["interval"].pc = Idle
                THEN [tasks EXCEPT !["interval"].pc = PassAt("customers", "begin")]
                ELSE tasks
    /\ UNCHANGED <<listVars, syncVars, hookVars, target, src, now, file, pc, run,
                   tickLog, last>>

NextTicks ==
    \/ \E t \in Runs : TaskBegin(t)
    \/ \E t \in Runs : TaskEnd(t)
    \/ ClockTick
    \/ IntervalFire

SpecTicks == InitTicks /\ [][NextTicks]_vars

-----------------------------------------------------------------------------
(* Specification of the end of a pass alone: a pass of the first tick that *)
(* has gone through its loop, any number of its records having failed       *)

\* records a pass lists (never more than max_results)
MaxBatch == 6

PassOrder == <<"customers", "estimates", "jobs">>

BatchRecord(i) == [id |-> i, updated_at |-> Ts(ConvWall)]

\* what is remembered of a pass that read cursor c, listed nothing and
\* completed
EmptyPass(c) == [result |-> "completed", since |-> c, stored |-> TRUE, listed |-> <<>>]

\* the state file when the p-th pass of the first tick ends, the passes
\* before it having listed nothing
RECURSIVE FileAtPass(_)
FileAtPass(p) ==
    IF p = 1 THEN SeededFile
    ELSE FinishPass(PassOrder[p - 1], FileAtPass(p - 1), StartHour, 0).file

InitBatch ==
    /\ HookIdle
    /\ lIn = NoInput
    /\ lOut = NoCall
    /\ sIn = NoInput
    /\ sLog = <<>>
    /\ target = EmptyTarget
    /\ now = StartHour
    /\ tick = 1
    /\ tasks = NoTasks
    /\ \E p \in 1..3, n \in 0..Min(MaxBatch, DefaultMaxResults) :
         \E failed \in SUBSET (1..n) :
            LET k == PassOrder[p]
                listed == [i \in 1..n |-> BatchRecord(i)]
                ids == [i \in 1..n |-> i]
            IN /\ pc = PassAt(k, "loop")
               /\ src = [NoSrc EXCEPT ![k] = listed]
               /\ file = FileAtPass(p)
               /\ last = [kk \in Kinds |->
                            IF \E q \in 1..(p - 1) : PassOrder[q] = kk
                            THEN EmptyPass(SeededFile.data[CursorKey(kk)])
                            ELSE NoLast[kk]]
               /\ run = [NoRun EXCEPT !.kind = k,
                                      !.since = SeededFile.data[CursorKey(k)],
                                      !.stored = TRUE,
                                      !.listed = listed,
                                      !.idx = n + 1,
                                      !.attempted = ids,
                                      !.sync_errors = SelectSeq(ids, LAMBDA i : i \in failed),
                                      !.result = "running"]
               /\ tickLog = <<Event("begin", k, NoId)>> \o
                            [i \in 1..n |-> Event("record", k, i)]

NextBatch == \E k \in Kinds : PassEnd(k)

SpecBatch == InitBatch /\ [][NextBatch]_vars

-----------------------------------------------------------------------------
(* Claims about the lister (checked under SpecList) *)

Range(f) == {f[i] : i \in DOMAIN f}

ListReturned == lOut.called /\ ~lOut.res.raised

\* C6: every record get_updated_* returns has a computed update timestamp
\* strictly greater than since, whatever the feed holds and however it is
\* ordered
C6_ReturnedAreNewer ==
    ListReturned =>
        \A r \in Range(lOut.res.items) :
            /\ Parses(lIn.kind, r.updated_at)
            /\ UpdatedAtDatetime(lIn.kind, r.updated_at) > lIn.since

\* C6 witness: an unsorted feed with an old, a bad and a new record, from
\* which a call returned something
C6_Witness ==
    /\ ListReturned
    /\ lOut.res.items # <<>>
    /\ \E i, j, k \in DOMAIN lIn.feed :
          /\ i < j /\ j < k
          /\ ~Parses(lIn.kind, lIn.feed[i].updated_at)
          /\ Parses(lIn.kind, lIn.feed[j].updated_at)
          /\ UpdatedAtDatetime(lIn.kind, lIn.feed[j].updated_at) > lIn.since
          /\ Parses(lIn.kind, lIn.feed[k].updated_at)
          /\ UpdatedAtDatetime(lIn.kind, lIn.feed[k].updated_at) <= lIn.since

AllParse(kind, feed) == \A i \in DOMAIN feed : Parses(kind, feed[i].updated_at)

NewestFirst(kind, feed) ==
    \A i, j \in DOMAIN feed :
        i < j => UpdatedAtDatetime(kind, feed[i].updated_at)
                     >= UpdatedAtDatetime(kind, feed[j].updated_at)

RECURSIVE NewerThan(_, _, _)
NewerThan(kind, feed, since) ==
    IF feed = <<>> THEN <<>>
    ELSE IF UpdatedAtDatetime(kind, Head(feed).updated_at) > since
    THEN <<Head(feed)>> \o NewerThan(kind, Tail(feed), since)
    ELSE NewerThan(kind, Tail(feed), since)

Truncated(seq, n) == SubSeq(seq, 1, Min(n, Len(seq)))

\* C7: on a newest-first feed whose timestamps all parse, get_updated_*
\* returns exactly the records strictly newer than since, in feed order,
\* truncated to the first max_results of them
C7_ExactlyTheNewer ==
    (ListReturned /\ AllParse(lIn.kind, lIn.feed) /\ NewestFirst(lIn.kind, lIn.feed)) =>
        lOut.res.items =
            Truncated(NewerThan(lIn.kind, lIn.feed, lIn.since), lIn.max_results)

\* C7 at the two values the callers pass (multiples of the page size): the
\* same statement, which holds there
C7_AtCallerValues ==
    (lIn.max_results \in {ConversionMaxResults, DefaultMaxResults}) => C7_ExactlyTheNewer

-----------------------------------------------------------------------------
(* Claims about the work-order flow (checked under SpecSync) *)

\* the Target contact a customer resolves to: by phone first, then by email
CustomerContact(tgt, cust) ==
    LET byPhone == IF cust.phone # None
                   THEN search_contact_by_phone(tgt, cust.phone) ELSE NoContact
    IN IF byPhone # NoContact THEN byPhone
       ELSE IF cust.email # None THEN search_contact_by_email(tgt, cust.email)
       ELSE NoContact

OppsOf(tgt, contact_id) == {o \in tgt.opps : o.contact = contact_id}

\* the premises of the re-pointing claim for log entry e, estimate E and
\* opportunity O: J is a fresh job with a mapped status, E a won estimate of
\* the same customer with the same updated_at, O tagged with E's id under the
\* customer's contact; the call returned normally and no listing failed
RepointCase(e, E, O) ==
    /\ sIn.work_type = "Job"
    /\ sIn.wo.created_at = sIn.wo.updated_at
    /\ StageMapGet(sIn.wo.status) # None
    /\ E \in Range(sIn.estFeed)
    /\ E.customer_id = sIn.wo.customer_id
    /\ E.status = "Estimate Won"
    /\ E.updated_at = sIn.wo.updated_at
    /\ sIn.wo.customer_id \in DOMAIN SFCustomers
    /\ O \in OppsOf(e.pre, CustomerContact(e.pre, SFCustomers[sIn.wo.customer_id]).id)
    /\ O.tag = Str(E.id)
    /\ e.res.outcome = "synced"
    /\ ~e.est

Repointed(e, O) ==
    /\ \E o \in e.res.tgt.opps :
          /\ o.id = O.id
          /\ o.tag = Str(sIn.wo.id)
          /\ o.stage = StageMapGet(sIn.wo.status)
    /\ Cardinality(OppsOf(e.res.tgt, O.contact)) = Cardinality(OppsOf(e.pre, O.contact))

\* C3: whenever such E and O exist (O the opportunity the search by E's id
\* answers), the call retags O with J's id, creates no opportunity and leaves
\* O at J's mapped stage
C3_AsStated ==
    \A i \in DOMAIN sLog : \A E \in Range(sIn.estFeed) : \A O \in sLog[i].pre.opps :
        ( /\ RepointCase(sLog[i], E, O)
          /\ O = search_opportunity_by_job_id(sLog[i].pre, E.id, O.contact) )
        => Repointed(sLog[i], O)

\* C3, restricted to the estimate the conversion check returns (the first
\* match among the estimates it lists): there the re-pointing is done
C3_Repointing ==
    \A i \in DOMAIN sLog : \A E \in Range(sIn.estFeed) : \A O \in sLog[i].pre.opps :
        ( /\ RepointCase(sLog[i], E, O)
          /\ sLog[i].res.conv_id = E.id
          /\ O = search_opportunity_by_job_id(sLog[i].pre, E.id, O.contact) )
        => Repointed(sLog[i], O)

ConsecutiveCalls == {i \in DOMAIN sLog : i + 1 \in DOMAIN sLog}

LeftoverEstimateOpp(e) ==
    /\ e.res.conv_id # NoId
    /\ \E o \in OppsOf(e.pre, e.res.contact_id) : o.tag = Str(e.res.conv_id)

\* the opportunities of the contact tagged with the work order's own id
OwnOpps(e) == {o \in OppsOf(e.pre, e.res.contact_id) : o.tag = Str(sIn.wo.id)}

-----------------------------------------------------------------------------
(* Claims about the passes and the tick (checked under Spec) *)

ListedIds(n) == [i \in 1..n |-> run.listed[i].id]

\* C1: in every pass the per-record sync is invoked once per listed record,
\* in list order: a record that raises does not stop the records after it,
\* and no pass ends on a record's exception
C1_EveryRecordAttempted ==
    /\ run.attempted = ListedIds(run.idx - 1)
    /\ run.result = "completed" => run.attempted = ListedIds(Len(run.listed))
    /\ run.result = "fatal" =>
          /\ run.cause # "record"
          /\ run.cause = "state" => run.attempted = ListedIds(Len(run.listed))

\* C1 witness: a completed pass whose first record raised and whose second
\* record was attempted all the same
C1_Witness ==
    /\ run.result = "completed"
    /\ Len(run.listed) >= 2
    /\ run.sync_errors # <<>>
    /\ run.sync_errors[1] = run.listed[1].id
    /\ run.attempted = ListedIds(Len(run.listed))

BatchNotesOf(r) == SelectSeq(r.notes, LAMBDA n : n.fn = PassName(r.kind))

\* C2: a pass sends at most one batched failure notification; a pass that
\* completes has sent exactly one, carrying the failed count, if a record
\* raised, and none if no record raised
C2_OneBatchNotification ==
    run.kind \in Kinds =>
        /\ Len(BatchNotesOf(run)) <= 1
        /\ run.result = "completed" =>
              BatchNotesOf(run) =
                  IF run.sync_errors # <<>>
                  THEN <<Note(PassName(run.kind), "medium", Len(run.sync_errors))>>
                  ELSE <<>>

\* C2 witness: a completed pass in which two records raised and one
\* notification went out
C2_Witness ==
    /\ run.result = "completed"
    /\ Len(run.sync_errors) = 2
    /\ Len(BatchNotesOf(run)) = 1

\* C5: no Target contact has two opportunities tagged with the same Source
\* work-order id
C5_NoDuplicateTags ==
    \A o1, o2 \in target.opps :
        (o1.contact = o2.contact /\ o1.tag = o2.tag) => o1 = o2

Rank(kind) ==
    CASE kind = "customers" -> 1
      [] kind = "estimates" -> 2
      [] kind = "jobs" -> 3

\* C8: within a tick the passes begin in the order customers, estimates,
\* jobs, each only after the one before has ended, and every record of a pass
\* is processed between its begin and its end; so every estimate is processed
\* before the first job
C8_PassOrder ==
    \A i \in DOMAIN tickLog :
        /\ \A j \in DOMAIN tickLog : i < j => Rank(tickLog[i].kind) <= Rank(tickLog[j].kind)
        /\ tickLog[i].ev = "begin" =>
              IF i = 1 THEN tickLog[i].kind = "customers"
              ELSE /\ tickLog[i - 1].ev = "end"
                   /\ Rank(tickLog[i].kind) = Rank(tickLog[i - 1].kind) + 1
        /\ tickLog[i].ev # "begin" =>
              /\ i > 1
              /\ tickLog[i - 1].ev \in {"begin", "record"}
              /\ tickLog[i - 1].kind = tickLog[i].kind

\* C8 witness: a finished tick in which estimates and then a job were processed
\* after the customers pass had ended on a fatal error
C8_Witness ==
    /\ pc = Idle
    /\ last["customers"].result = "fatal"
    /\ \E i, j \in DOMAIN tickLog :
          /\ i < j
          /\ tickLog[i] = Event("record", "estimates", EstWon.id)
          /\ tickLog[j] = Event("record", "jobs", JobFresh.id)

HighNotesOf(r) == SelectSeq(r.notes, LAMBDA n : n.severity = "high")

\* C9: an exception of a pass body never leaves the wrapper; it is notified
\* once at high severity, and run_all_syncs stands at the next pass (after the
\* jobs pass: at the end of the tick or at the start of the next one)
C9_FatalCaught ==
    /\ pc # Crashed
    /\ run.result = "fatal" =>
          /\ HighNotesOf(run) = <<Note(WrapperName(run.kind), "high", 1)>>
          /\ IF run.kind = "jobs" THEN pc \in {Idle, PassAt("customers", "begin")}
             ELSE pc = PassAt(CHOOSE k \in Kinds : Rank(k) = Rank(run.kind) + 1, "begin")

\* C9 witness: the customers pass of the first tick ended on a fatal error,
\* the estimates and jobs passes of that tick completed, and the second tick
\* is running
C9_Witness ==
    /\ tick = 2
    /\ pc = PassAt("customers", "begin")
    /\ last["customers"].result = "fatal"
    /\ last["estimates"].result = "completed"
    /\ last["jobs"].result = "completed"

\* a step of a pass, and a step that begins pass k after k's last pass ended
\* on a fatal error
PassStep == pc' # pc \/ run' # run
RetryStep == pc.pass \in Kinds /\ pc.phase = "begin" /\ pc' # pc
                /\ last[pc.pass].result = "fatal"

\* the only step of a pass that writes the state file is the one that
\* completes it
FatalPassWritesNothing == (PassStep /\ run'.result # "completed") => file' = file

\* C10 as stated: a pass that ends on a fatal error leaves the state file as
\* it was, and the next pass of the kind lists with the same since value
C10_AsStated ==
    [][ /\ FatalPassWritesNothing
        /\ RetryStep => run'.since = last[pc.pass].since ]_vars

\* C10 amended: a pass that ends on a fatal error leaves the state file as it
\* was; the next pass of the kind lists with the same since value when the
\* failed pass had a readable persisted cursor and it is still readable
C10_FatalLeavesCursor ==
    [][ /\ FatalPassWritesNothing
        /\ (RetryStep /\ last[pc.pass].stored /\ HasCursor(file, pc.pass))
               => run'.since = last[pc.pass].since ]_vars

\* C10 witness: a pass begun from the persisted cursor after the kind's last
\* pass, listing from the same cursor, ended on a fatal error
C10_Witness ==
    /\ tick = 2
    /\ run.kind = "estimates"
    /\ run.result = "running"
    /\ last["estimates"].result = "fatal"
    /\ last["estimates"].stored
    /\ run.stored
    /\ run.since = last["estimates"].since
    /\ run.listed # <<>>

-----------------------------------------------------------------------------
(* Claims about the cursor and counter store (checked under Spec) *)

\* the step that ends a pass without a fatal error
CompletesPass == run.result = "running" /\ run'.result = "completed"

\* C11: whenever a pass completes without a fatal error, whatever it listed
\* and however many of its records failed, the kind's cursor becomes the
\* clock read at the end of the pass, its check counter grows by exactly 1
\* and its updates-found counter by the number of records listed
C11_CursorIsNow ==
    [][ CompletesPass =>
          LET k == run.kind
          IN /\ file'.status = "valid"
             /\ file'.data[CursorKey(k)] = now
             /\ file'.data[ChecksKey(k)] = StatsGet(file.data, ChecksKey(k)) + 1
             /\ file'.data[FoundKey(k)] =
                   StatsGet(file.data, FoundKey(k)) + Len(run.listed) ]_vars

\* C11 witness: a completed pass every record of which failed; the cursor is
\* the clock, not the records' timestamp, and the counters have moved on from
\* the seeded file's
C11_Witness ==
    /\ run.result = "completed"
    /\ Len(run.listed) = 2
    /\ Len(run.sync_errors) = 2
    /\ file.data[CursorKey(run.kind)] = now
    /\ UpdatedAtDatetime(run.kind, run.listed[1].updated_at) # now
    /\ file.data[ChecksKey(run.kind)] = 2
    /\ file.data[FoundKey(run.kind)] = 3

-----------------------------------------------------------------------------
(* Claims about records the flows skip or reject (checked under Spec) *)

\* the step of a pass that processes the next listed record
LoopStep ==
    /\ pc.pass \in Kinds
    /\ pc.phase = "loop"
    /\ run.idx <= Len(run.listed)
    /\ run'.idx = run.idx + 1

\* the Source customer the per-record sync works on
RecordCustomer(kind, rec) ==
    IF kind = "customers" THEN [id |-> rec.id, phone |-> rec.phone, email |-> rec.email]
    ELSE get_customer_by_id(rec.customer_id)

HasNoContactInfo(cust) == cust # NoCustomer /\ cust.phone = None /\ cust.email = None

\* the notices sync_work_order_to_ghl itself sent
FlowNotes(res) == SelectSeq(res.notes, LAMBDA n : n.fn = "sync_work_order_to_ghl")

UnmappedStep ==
    /\ LoopStep
    /\ run.kind # "customers"
    /\ StageMapGet(run.listed[run.idx].status) = None

\* what the flow does with the record of the step, for every failure mode:
\* it returns without raising, without fetching the customer and without any
\* Target call; the pass counts no failure and goes on
UnmappedIsSkipped(F) ==
    LET res == SyncRecord(run.kind, run.listed[run.idx], src["estimates"], target, F)
    IN /\ res.outcome = "skip_status"
       /\ "get_customer_by_id" \notin Range(res.calls)
       /\ Range(res.calls) \cap TargetCalls = {}
       /\ res.tgt = target

\* C13 as stated: a work order with an unmapped status is skipped without
\* raising, without a customer fetch, a Target call or any notification, and
\* the pass counts no failure and goes on
C13_AsStated ==
    [][ UnmappedStep =>
          /\ target' = target
          /\ run'.sync_errors = run.sync_errors
          /\ run'.result = "running"
          /\ run'.notes = run.notes
          /\ \A F \in FailureModes : UnmappedIsSkipped(F) ]_vars

\* C13 amended: as stated, except that the flow sends no notification of its
\* own: for a freshly created job the conversion check has listed the
\* estimates before the status is looked up, and the only notification that
\* can go out is that listing's bad-record notice
C13_UnmappedSkipped ==
    [][ UnmappedStep =>
          /\ target' = target
          /\ run'.sync_errors = run.sync_errors
          /\ run'.result = "running"
          /\ \A F \in FailureModes :
                LET rec == run.listed[run.idx]
                    res == SyncRecord(run.kind, rec, src["estimates"], target, F)
                IN /\ UnmappedIsSkipped(F)
                   /\ \A i \in DOMAIN res.notes :
                         /\ res.notes[i].fn = "get_updated_estimates"
                         /\ run.kind = "jobs"
                         /\ rec.created_at = rec.updated_at
                   /\ Len(res.notes) <= 1 ]_vars

\* C13 witness: a completed jobs pass that listed the unmapped job first,
\* counted no failure, processed the job after it, and created no
\* opportunity for it, while the conversion listing reported a bad estimate
C13_Witness ==
    /\ run.kind = "jobs"
    /\ run.result = "completed"
    /\ run.listed = <<JobUnmapped, JobNoContact>>
    /\ run.attempted = <<JobUnmapped.id, JobNoContact.id>>
    /\ run.sync_errors = <<>>
    /\ \A o \in target.opps : o.tag # Str(JobUnmapped.id)
    /\ \E i \in DOMAIN run.notes : run.notes[i].fn = "get_updated_estimates"

-----------------------------------------------------------------------------
(* Claims about the cursor read (checked under Spec) *)

\* the step that begins a pass: the cursor read and the listing
BeginStep == pc.pass \in Kinds /\ pc.phase = "begin" /\ pc' # pc

-----------------------------------------------------------------------------
(* Claims about timestamp normalisation (checked under SpecList) *)

FirstParses ==
    /\ lIn.feed # <<>>
    /\ Parses(lIn.kind, lIn.feed[1].updated_at)

FirstReturned ==
    /\ lOut.res.items # <<>>
    /\ lOut.res.items[1] = lIn.feed[1]

\* C15: for jobs and estimates the timestamp compared against since is the
\* stated wall-clock plus the Source zone's five hours, never the stated
\* wall-clock itself: the first record of the feed is returned exactly when
\* its wall-clock plus five hours is strictly later than since
C15_WallClockShifted ==
    (ListReturned /\ lIn.kind \in {"jobs", "estimates"} /\ FirstParses) =>
        /\ UpdatedAtDatetime(lIn.kind, lIn.feed[1].updated_at)
               = lIn.feed[1].updated_at.wall + 5
        /\ UpdatedAtDatetime(lIn.kind, lIn.feed[1].updated_at)
               # lIn.feed[1].updated_at.wall
        /\ FirstReturned <=> lIn.feed[1].updated_at.wall + 5 > lIn.since

\* C15 witness: a job or estimate whose stated wall-clock is not later than
\* since is returned, because its shifted timestamp is
C15_Witness ==
    /\ ListReturned
    /\ lIn.kind \in {"jobs", "estimates"}
    /\ FirstParses
    /\ lIn.feed[1].updated_at.sfx = "+00:00"
    /\ lIn.feed[1].updated_at.wall <= lIn.since
    /\ FirstReturned

-----------------------------------------------------------------------------
(* Claims about contact resolution in the work-order flow (checked under
   SpecSync) *)

Issued(e, name) == name \in Range(e.res.calls)

FirstIndex(calls, name) ==
    CHOOSE i \in DOMAIN calls :
        calls[i] = name /\ \A j \in 1..(i - 1) : calls[j] # name

\* the call `name` was issued and answered (it is not the call that raised)
Answered(e, name) == Issued(e, name) /\ e.res.err.cause # name

FlowCustomer == get_customer_by_id(sIn.wo.customer_id)

PhoneMatched(e) ==
    /\ Answered(e, "search_contact_by_phone")
    /\ search_contact_by_phone(e.pre, FlowCustomer.phone) # NoContact

EmailMatched(e) ==
    /\ Answered(e, "search_contact_by_email")
    /\ search_contact_by_email(e.pre, FlowCustomer.email) # NoContact

ContactCalls ==
    {"search_contact_by_phone", "search_contact_by_email", "upsert_contact",
     "update_contact_custom_field"}

\* C16: the phone search is issued only for a customer with a phone and
\* before every other contact call; the email search only when no phone
\* search matched and the customer has an email; the upsert only when no
\* search matched; the link-field write exactly when a search matched
C16_ContactResolution ==
    \A i \in DOMAIN sLog :
        LET e == sLog[i]
        IN /\ Issued(e, "search_contact_by_phone") => FlowCustomer.phone # None
           /\ \A c \in ContactCalls :
                 (Issued(e, c) /\ FlowCustomer.phone # None) =>
                     /\ Issued(e, "search_contact_by_phone")
                     /\ FirstIndex(e.res.calls, "search_contact_by_phone")
                            <= FirstIndex(e.res.calls, c)
           /\ Issued(e, "search_contact_by_email") =>
                 /\ ~PhoneMatched(e)
                 /\ FlowCustomer.email # None
           /\ Issued(e, "upsert_contact") => ~PhoneMatched(e) /\ ~EmailMatched(e)
           /\ Issued(e, "update_contact_custom_field")
                 <=> (PhoneMatched(e) \/ EmailMatched(e))
           /\ \A c \in ContactCalls :
                 Cardinality({k \in DOMAIN e.res.calls : e.res.calls[k] = c}) <= 1

\* C16 witness: a customer with phone and email whose phone search found
\* nothing and whose email search matched, so that the link field was
\* written and no contact was created
C16_Witness ==
    \E i \in DOMAIN sLog :
        /\ FlowCustomer.phone # None
        /\ Answered(sLog[i], "search_contact_by_phone")
        /\ ~PhoneMatched(sLog[i])
        /\ EmailMatched(sLog[i])
        /\ Issued(sLog[i], "update_contact_custom_field")
        /\ ~Issued(sLog[i], "upsert_contact")
        /\ sLog[i].res.outcome = "synced"

\* a customer with a phone and no email, not yet in the Target: one phone
\* search, no email search, a contact created
PhoneOnlyCreated ==
    \E i \in DOMAIN sLog :
        /\ FlowCustomer.phone # None /\ FlowCustomer.email = None
        /\ Answered(sLog[i], "search_contact_by_phone")
        /\ ~Issued(sLog[i], "search_contact_by_email")
        /\ Answered(sLog[i], "upsert_contact")

-----------------------------------------------------------------------------
(* Claims about the errors of the work-order flow (checked under SpecSync) *)

FlowCalls == TargetCalls \cup {"get_customer_by_id"}

\* the call raised while a Source or Target call of the flow was failing
CallFailed(e) == e.res.outcome = "raised" /\ e.res.err.cause \in FlowCalls

\* C17: every exception that escapes sync_work_order_to_ghl is a JobSyncError
\* whose context carries the work order's id, its number and its customer
\* id; a failing Source or Target call is wrapped in such an error with the
\* original error recorded
C17_TypedErrors ==
    \A i \in DOMAIN sLog :
        sLog[i].res.outcome = "raised" =>
            /\ sLog[i].res.err.type = "JobSyncError"
            /\ FullContext \subseteq sLog[i].res.err.ctx
            /\ CallFailed(sLog[i]) => "original_error" \in sLog[i].res.err.ctx

\* the same statement for every error but the one raised when the Target
\* answers a contact without an id, whose context has no work order number
C17_ExceptMissingContactId ==
    \A i \in DOMAIN sLog :
        sLog[i].res.outcome = "raised" =>
            /\ sLog[i].res.err.type = "JobSyncError"
            /\ {"work_order_id", "customer_id"} \subseteq sLog[i].res.err.ctx
            /\ sLog[i].res.err.cause # "no_contact_id" =>
                  FullContext \subseteq sLog[i].res.err.ctx
            /\ CallFailed(sLog[i]) => "original_error" \in sLog[i].res.err.ctx

-----------------------------------------------------------------------------
(* Claims about a work order whose customer the Source does not have
   (checked under Spec) *)

\* the step of a work-order pass on a record whose customer fetch finds
\* nothing: the status is mapped, so the flow reaches the fetch, and the
\* Source has no customer under the record's customer_id
OrphanStep ==
    /\ LoopStep
    /\ run.kind # "customers"
    /\ StageMapGet(run.listed[run.idx].status) # None
    /\ get_customer_by_id(run.listed[run.idx].customer_id) = NoCustomer

-----------------------------------------------------------------------------
(* Claims about bad records and the early return of the lister (checked
   under SpecList) *)

\* the number of feed records the call examined; it examines the feed in
\* order, so these are the records at positions 1..Examined
Examined == Len(lOut.res.examined)

IsBad(p) == ~Parses(lIn.kind, lIn.feed[p].updated_at)

IsOld(p) ==
    /\ Parses(lIn.kind, lIn.feed[p].updated_at)
    /\ ~(UpdatedAtDatetime(lIn.kind, lIn.feed[p].updated_at) > lIn.since)

IsNew(p) ==
    /\ Parses(lIn.kind, lIn.feed[p].updated_at)
    /\ UpdatedAtDatetime(lIn.kind, lIn.feed[p].updated_at) > lIn.since

PageNo(p) == ((p - 1) \div PageSize) + 1

NewUpTo(p) == Cardinality({q \in 1..p : IsNew(q)})

\* C19: a record whose timestamp does not parse is never returned and never
\* ends the scan: the record after it is examined too, unless the bad record
\* closed a page and max_results newer records were already collected; a
\* call that returns normally has sent one bad-record notification if it
\* examined a bad record, and none otherwise
C19_BadRecordsSkipped ==
    ListReturned =>
        /\ lOut.res.examined = [p \in 1..Examined |-> lIn.feed[p].id]
        /\ \A r \in Range(lOut.res.items) : Parses(lIn.kind, r.updated_at)
        /\ \A p \in 1..Examined :
              (IsBad(p) /\ p < Len(lIn.feed)) =>
                  \/ p + 1 <= Examined
                  \/ /\ p % PageSize = 0
                     /\ NewUpTo(p) >= lIn.max_results
        /\ lOut.res.notified = IF \E p \in 1..Examined : IsBad(p) THEN 1 ELSE 0

\* C19 witness: a bad record first, after which the call examined the rest
\* of the page and a record of the next page, returned a record from each
\* and sent one notification
C19_Witness ==
    /\ ListReturned
    /\ lIn.feed # <<>>
    /\ IsBad(1)
    /\ Examined > PageSize
    /\ \E r \in Range(lOut.res.items) : PageNo(r.id) = 1
    /\ \E r \in Range(lOut.res.items) : PageNo(r.id) = 2
    /\ lOut.res.notified = 1

\* C20: the first examined record whose timestamp parses and is not strictly
\* greater than since is the last record examined: nothing after it is
\* examined or returned and no page after its own is fetched
C20_StopsAtFirstOld ==
    ListReturned =>
        \A p \in 1..Examined :
            IsOld(p) =>
                /\ Examined = p
                /\ lOut.res.pages = PageNo(p)
                /\ \A r \in Range(lOut.res.items) : r.id < p

\* C20 witness: the scan stopped at an old record although a newer record
\* follows it on the same page and another on the next page
C20_Witness ==
    /\ ListReturned
    /\ Examined >= 1
    /\ IsOld(Examined)
    /\ \E q \in DOMAIN lIn.feed :
          q > Examined /\ PageNo(q) = PageNo(Examined) /\ IsNew(q)
    /\ \E q \in DOMAIN lIn.feed : PageNo(q) > PageNo(Examined) /\ IsNew(q)
    /\ lOut.res.pages = 1

-----------------------------------------------------------------------------
(* Claims about the size of a listing (checked under SpecList) *)

\* C21: every call of get_updated_* that returns answers at most max_results
\* records, on every exit path and for every max_results >= 1
C21_AtMostMaxResults ==
    ListReturned => Len(lOut.res.items) <= lIn.max_results

\* the exits other than the early return at an older record keep the bound;
\* the early return exceeds it by less than one page
C21_OtherExits ==
    ListReturned =>
        /\ ~lOut.res.returned => Len(lOut.res.items) <= lIn.max_results
        /\ lOut.res.returned => Len(lOut.res.items) < lIn.max_results + PageSize

-----------------------------------------------------------------------------
(* Claims about notification delivery (checked under Spec) *)

\* two outcomes of a step that differ at most in the record of a failed
\* delivery
SameOutcome(a, b) ==
    [a EXCEPT !.run.undelivered = FALSE] = [b EXCEPT !.run.undelivered = FALSE]

Delivered(F) == [F EXCEPT !.slack = "ok"]

\* the per-record sync of the record the pass is at, under failure mode F
SyncHere(F) ==
    SyncRecord(run.kind, run.listed[run.idx], src["estimates"], target, F)

\* C22: whatever the delivery of a notification does (200, another status, an
\* exception), send_error raises nothing: every step of a pass ends exactly
\* as it does when the delivery succeeds, with the same notifications sent,
\* the same records counted as failed, the same pass result and the same
\* cursor, and the scheduler is not left
C22_DeliverySwallowed ==
    /\ run.undelivered => pc # Crashed
    /\ (pc.pass \in Kinds /\ pc.phase = "begin") =>
          \A failAt \in {0, 1}, D \in Deliveries :
              SameOutcome(PassBeginOutcome(pc.pass, failAt, D),
                          PassBeginOutcome(pc.pass, failAt, "ok"))
    /\ (pc.pass \in Kinds /\ pc.phase = "loop" /\ run.idx <= Len(run.listed)) =>
          \A F \in FailureModes :
              /\ SyncHere(F) = SyncHere(Delivered(F))
              /\ SameOutcome(
                    LoopOutcome(pc.pass, run.listed[run.idx], SyncHere(F), F.slack),
                    LoopOutcome(pc.pass, run.listed[run.idx], SyncHere(Delivered(F)), "ok"))
    /\ (pc.pass \in Kinds /\ pc.phase = "loop" /\ run.idx > Len(run.listed)) =>
          \A D \in Deliveries :
              SameOutcome(PassEndOutcome(pc.pass, D), PassEndOutcome(pc.pass, "ok"))

\* C22 witness: a pass whose batched failure notification was not delivered
\* completed all the same, with its one batch notification and its cursor
\* set to the clock
C22_Witness ==
    /\ run.undelivered
    /\ run.result = "completed"
    /\ run.sync_errors # <<>>
    /\ Len(BatchNotesOf(run)) = 1
    /\ file.status = "valid"
    /\ file.data[CursorKey(run.kind)] = now

-----------------------------------------------------------------------------
(* Claims about the status-to-stage table (checked under SpecSync) *)

\* C23: every job status and every estimate status Settings declares is a
\* key of the status-to-stage table and has a stage, so that no work order
\* in such a status is skipped as unmapped
C23_EveryStatusMapped ==
    /\ Cardinality(JobStatuses) = 17
    /\ Cardinality(EstimateStatuses) = 6
    /\ \A st \in JobStatuses \cup EstimateStatuses :
          /\ st \in DOMAIN sf_to_ghl_stage_map
          /\ StageMapGet(st) # None
    /\ \A i \in DOMAIN sLog :
          sIn.wo.status \in JobStatuses \cup EstimateStatuses =>
              sLog[i].res.outcome # "skip_status"

\* the declared statuses the table has no key for
UnmappedStatuses == (JobStatuses \cup EstimateStatuses) \ DOMAIN sf_to_ghl_stage_map

\* what holds of the table: its keys are declared statuses, each key has one
\* stage, and the declared statuses without a key are these six
C23_TableAsCoded ==
    /\ DOMAIN sf_to_ghl_stage_map \subseteq JobStatuses \cup EstimateStatuses
    /\ \A st \in DOMAIN sf_to_ghl_stage_map : StageMapGet(st) # None
    /\ UnmappedStatuses = {"Job Closed", "To be invoiced", "Invoiced", "Paid in Full",
                           "Archived", "Estimate Scheduled"}
    /\ \A i \in DOMAIN sLog :
          sLog[i].res.outcome = "skip_status" <=> sIn.wo.status \in UnmappedStatuses

-----------------------------------------------------------------------------
(* Claims about the link between a contact and its customer (checked under
   SpecSync) *)

\* the flow resolved a contact in call e
ContactResolved(e) == e.res.contact_id # NoId

ResolvedContact(e) == CHOOSE c \in e.res.tgt.contacts : c.id = e.res.contact_id

\* C24: once contact resolution has returned a contact, matched by phone,
\* matched by email or newly created, that contact's link field holds the
\* Source customer's id as a string
C24_ResolvedContactLinked ==
    \A i \in DOMAIN sLog :
        ContactResolved(sLog[i]) =>
            /\ \E c \in sLog[i].res.tgt.contacts : c.id = sLog[i].res.contact_id
            /\ ResolvedContact(sLog[i]).link = Str(sIn.wo.customer_id)

\* what holds: a contact matched by a search is linked; a contact the flow
\* created carries no link after the call
C24_MatchedLinkedCreatedNot ==
    \A i \in DOMAIN sLog :
        ContactResolved(sLog[i]) =>
            /\ (PhoneMatched(sLog[i]) \/ EmailMatched(sLog[i])) =>
                  ResolvedContact(sLog[i]).link = Str(sIn.wo.customer_id)
            /\ Answered(sLog[i], "upsert_contact") =>
                  ResolvedContact(sLog[i]).link = Str(NoId)

-----------------------------------------------------------------------------
(* Claims about the intake endpoint (checked under SpecIntake) *)

CountOf(calls, name) == Cardinality({i \in DOMAIN calls : calls[i] = name})

\* the customer find-or-create step of the request succeeded
CustomerStepDone == hOut.called /\ hOut.res.http = 200

\* C25: every request whose customer find-or-create step succeeds attempts
\* exactly one Source job creation, with status "Scheduled", whether the
\* customer was found by id, found by email/phone or newly created
C25_OneScheduledJob ==
    CustomerStepDone => CountOf(hOut.res.calls, "create_job:Scheduled") = 1

\* the same for the requests whose customData is absent or an object, on
\* each of the three ways the customer is obtained; with customData null no
\* job creation is attempted
C25_UnlessCustomDataNull ==
    CustomerStepDone =>
        /\ hIn.customData # "null" =>
              CountOf(hOut.res.calls, "create_job:Scheduled") = 1
        /\ hIn.customData = "null" =>
              /\ CountOf(hOut.res.calls, "create_job:Scheduled") = 0
              /\ ~hOut.res.response.job_created

FoundById ==
    /\ CustomerStepDone
    /\ hOut.res.calls = <<"get_customer_by_id", "create_job:Scheduled">>

FoundBySearch ==
    /\ CustomerStepDone
    /\ hOut.res.calls = <<"find_customer_by_email_or_phone", "create_job:Scheduled">>

NewlyCreated ==
    /\ CustomerStepDone
    /\ hOut.res.created
    /\ hOut.res.response.job_created

-----------------------------------------------------------------------------
(* Claims about the stage a sync uses (checked under SpecSync) *)

\* the opportunities call e created or whose stage it changed
StageWritten(e) ==
    {o \in e.res.tgt.opps :
        \A q \in e.pre.opps : q.id = o.id => q.stage # o.stage}

-----------------------------------------------------------------------------
(* Claims about opportunity resolution (checked under SpecSync) *)

\* call e got through Step 3: a contact id was in hand and every lookup and the
\* retag were answered, so the call went on to Step 4
ReachedCreateOrUpdate(e) ==
    /\ e.res.contact_id # NoId
    /\ \/ e.res.outcome = "synced"
       \/ /\ e.res.outcome = "raised"
          /\ e.res.err.cause \in {"create_opportunity", "update_opportunity"}

\* the opportunity Step 3 of call e resolves on the Target it found: the one
\* tagged with the converted estimate's id, else the one tagged with the work
\* order's own id, else none
ResolvedOpp(e) ==
    LET byEstimate == IF e.res.conv_id = NoId THEN NoOpp
                      ELSE search_opportunity_by_job_id(e.pre, e.res.conv_id,
                                                        e.res.contact_id)
    IN IF byEstimate # NoOpp THEN byEstimate
       ELSE search_opportunity_by_job_id(e.pre, sIn.wo.id, e.res.contact_id)

\* C27: in a call that gets through opportunity resolution an opportunity
\* create is issued iff none was resolved, a stage update is issued iff one was
\* resolved and its recorded stage differs from the mapped stage, never both;
\* after a normal return without skip the contact has an opportunity tagged
\* with the work order's id at the mapped stage
C27_CreateXorUpdate ==
    \A i \in DOMAIN sLog :
        LET e == sLog[i]
            opp == ResolvedOpp(e)
            stage == StageMapGet(sIn.wo.status)
            created == "create_opportunity" \in Range(e.res.calls)
            updated == "update_opportunity" \in Range(e.res.calls)
        IN /\ ReachedCreateOrUpdate(e) =>
                /\ created <=> opp = NoOpp
                /\ updated <=> (opp # NoOpp /\ opp.stage # stage)
                /\ ~(created /\ updated)
           /\ e.res.outcome = "synced" =>
                \E o \in OppsOf(e.res.tgt, e.res.contact_id) :
                    o.tag = Str(sIn.wo.id) /\ o.stage = stage

\* C27 witness: a first call that resolved an opportunity at another stage
\* and updated it, then a call that resolved it at the mapped stage and
\* issued neither request
C27_Witness ==
    /\ Len(sLog) = 2
    /\ sLog[1].res.outcome = "synced"
    /\ ResolvedOpp(sLog[1]) # NoOpp
    /\ "update_opportunity" \in Range(sLog[1].res.calls)
    /\ sLog[2].res.outcome = "synced"
    /\ Range(sLog[2].res.calls) \cap {"create_opportunity", "update_opportunity"} = {}

\* a call that resolved nothing and created the opportunity
CreatedUnresolved ==
    \E i \in DOMAIN sLog :
        /\ sLog[i].res.outcome = "synced"
        /\ ResolvedOpp(sLog[i]) = NoOpp
        /\ "create_opportunity" \in Range(sLog[i].res.calls)

-----------------------------------------------------------------------------
(* Claims about repeated calls (checked under SpecSync) *)

OppWrites == {"create_opportunity", "update_opportunity_custom_field",
              "update_opportunity"}

\* C28: the call after a call that returned `synced`, for the same work order
\* with the same status, creates no opportunity, retags none, issues no stage
\* update and leaves the set of opportunities as it found it
C28_SecondCallNoOp ==
    \A i \in ConsecutiveCalls :
        sLog[i].res.outcome = "synced" =>
            /\ Range(sLog[i + 1].res.calls) \cap OppWrites = {}
            /\ sLog[i + 1].res.tgt.opps = sLog[i + 1].pre.opps

\* the Target holds no two opportunities of one contact with the same tag
NoTwins(tgt) ==
    \A o1, o2 \in tgt.opps : (o1.contact = o2.contact /\ o1.tag = o2.tag) => o1 = o2

\* C28 where the first call's estimate listing answered and the Target it
\* found held no two opportunities with one tag
C28_ListingAnswered ==
    \A i \in ConsecutiveCalls :
        (sLog[i].res.outcome = "synced" /\ ~sLog[i].est /\ NoTwins(sLog[i].pre)) =>
            /\ Range(sLog[i + 1].res.calls) \cap OppWrites = {}
            /\ sLog[i + 1].res.tgt.opps = sLog[i + 1].pre.opps

-----------------------------------------------------------------------------
(* Claims about the rewriting of tags (checked under SpecSync) *)

\* call e changed the tag of an opportunity, or issued the request that does
TagRewritten(e) ==
    \/ "update_opportunity_custom_field" \in Range(e.res.calls)
    \/ \E o \in e.pre.opps : \E q \in e.res.tgt.opps : q.id = o.id /\ q.tag # o.tag

\* the work order of call e is a job never modified since creation, the
\* estimate listing holds a won estimate of its customer with the identical
\* updated_at, and an opportunity tagged with that estimate's id exists under
\* the contact the call resolved
ConversionCase(e) ==
    /\ sIn.work_type = "Job"
    /\ sIn.wo.created_at = sIn.wo.updated_at
    /\ \E E \in Range(sIn.estFeed) :
          /\ E.customer_id = sIn.wo.customer_id
          /\ E.status = "Estimate Won"
          /\ E.updated_at = sIn.wo.updated_at
          /\ \E O \in OppsOf(e.pre, e.res.contact_id) : O.tag = Str(E.id)

\* C29: a call rewrites an opportunity's tag only in the conversion case; a
\* call for an estimate or for a job modified since creation rewrites none,
\* and a rewritten tag is the job's id on the opportunity that carried the
\* estimate's id
C29_RetagOnlyOnConversion ==
    \A i \in DOMAIN sLog :
        LET e == sLog[i]
        IN /\ TagRewritten(e) => ConversionCase(e)
           /\ (sIn.work_type = "Estimate" \/ sIn.wo.created_at # sIn.wo.updated_at)
                 => ~TagRewritten(e)
           /\ \A o \in e.pre.opps : \A q \in e.res.tgt.opps :
                 (q.id = o.id /\ q.tag # o.tag) =>
                     /\ q.tag = Str(sIn.wo.id)
                     /\ o.tag = Str(e.res.conv_id)
                     /\ o.contact = e.res.contact_id

\* C29 witness: a call that ran to the end and changed the tag of an
\* opportunity
C29_Witness ==
    \E i \in DOMAIN sLog :
        /\ sLog[i].res.outcome = "synced"
        /\ \E o \in sLog[i].pre.opps : \E q \in sLog[i].res.tgt.opps :
              q.id = o.id /\ q.tag # o.tag

\* a call for a job modified since creation that ran to the end on a Target
\* holding an opportunity tagged with the won estimate's id
ModifiedJobSynced ==
    \E i \in DOMAIN sLog :
        /\ sIn.work_type = "Job"
        /\ sIn.wo.created_at # sIn.wo.updated_at
        /\ sLog[i].res.outcome = "synced"
        /\ \E O \in OppsOf(sLog[i].pre, sLog[i].res.contact_id) : O.tag = Str(EstWon.id)
        /\ EstWon \in Range(sIn.estFeed)

-----------------------------------------------------------------------------
(* Claims about polling a changing Source (checked under SpecPoll) *)

\* the instant the lister reads from record r of kind k
UpdatedAtOf(k, r) == UpdatedAtDatetime(k, r.updated_at)

\* a pass of kind k has just listed, the pass of kind k before it completed
\* (listing, loop and cursor save without failure) with fewer records than
\* max_results, and no pass of the run ended in the wrapper
SecondListing(k) ==
    /\ pc = PassAt(k, "loop")
    /\ run.idx = 1
    /\ last[k].result = "completed"
    /\ Len(last[k].listed) < DefaultMaxResults
    /\ \A kk \in Kinds : last[kk].result # "fatal"

\* C30: no Source update is missed. Every record updated after the cursor
\* the earlier pass used was listed, hence handed to the per-record sync, by
\* that pass, or is still newer than the cursor the later pass lists from, so
\* that this pass or one after it lists it; this covers the records updated
\* while the earlier pass was in its loop
C30_NoUpdateMissed ==
    \A k \in Kinds :
        SecondListing(k) =>
            \A i \in DOMAIN src[k] :
                LET r == src[k][i]
                IN ( /\ Parses(k, r.updated_at)
                     /\ IsNewer(UpdatedAtOf(k, r), last[k].since) )
                   => \/ r \in Range(last[k].listed)
                      \/ IsNewer(UpdatedAtOf(k, r), run.since)

\* a pass lists a record that was updated while the program ran
UpdateListed ==
    \E k \in Kinds :
        /\ pc = PassAt(k, "loop")
        /\ \E j \in DOMAIN run.listed :
              UpdatedAtOf(k, run.listed[j]) > StartHour

-----------------------------------------------------------------------------
(* Claims about an unreadable state file (checked under Spec) *)

\* the step that ends the loop of the running pass: batch notification,
\* cursor, counters
EndStep ==
    /\ pc.pass \in Kinds
    /\ pc.phase = "loop"
    /\ run.idx > Len(run.listed)
    /\ run' # run

\* C31: a pass that read its cursor from a state file that was not valid
\* JSON, and so used the 24-hour fallback, completes and persists its cursor
\* at its end, so that a later tick reads a persisted cursor
C31_FallbackPassPersists ==
    [][ (EndStep /\ run.unreadable) =>
            /\ run'.result = "completed"
            /\ HasCursor(file', pc.pass) ]_vars

\* what holds instead: a state file that is not valid JSON stays so, the pass
\* that fell back on it ends in the wrapper when it saves its cursor, and the
\* pass after it falls back again
C31_UnreadableStays ==
    [][ /\ file.status = "invalid" => file'.status = "invalid"
        /\ (EndStep /\ run.unreadable) =>
              /\ run'.result = "fatal"
              /\ run'.cause = "state"
              /\ ~HasCursor(file', pc.pass)
        /\ (BeginStep /\ file.status = "invalid") =>
              run'.since = now - LookbackHours ]_vars

\* a pass of the second tick fell back on a file that is not valid JSON and
\* ended in the wrapper when it saved its cursor
FallsBackAgain ==
    /\ tick = 2
    /\ run.unreadable
    /\ run.result = "fatal"
    /\ run.cause = "state"

-----------------------------------------------------------------------------
(* Claims about the runs on the event loop (checked under SpecTicks) *)

Running == {t \in Runs : tasks[t].pc # Idle}

\* C32: at most one run of run_all_syncs is executing at any time; the
\* startup run and the interval-triggered runs never interleave, so no two
\* passes stand between their cursor read and their cursor save together
C32_OneTickAtATime ==
    /\ Cardinality(Running) <= 1
    /\ \A t, u \in Runs :
          (tasks[t].pc.phase = "loop" /\ tasks[u].pc.phase = "loop") => t = u

\* the passes of one kind of both runs are in their loops at once, on the
\* same Target and the same cursor
SamePassTwice ==
    /\ tasks["startup"].pc = PassAt("customers", "loop")
    /\ tasks["interval"].pc = PassAt("customers", "loop")

\* a fire time passed while the instance of the interval job was still
\* running, and no second instance was started
FireSkipped ==
    /\ tick = 2
    /\ tasks["interval"].pc = PassAt("customers", "loop")
    /\ tasks["startup"].pc = Idle
    /\ now = StartHour + 2 * SyncIntervalHours

-----------------------------------------------------------------------------
(* Claims about a failing conversion check (checked under SpecSync) *)

\* call e is for a job whose conversion check listed the estimates, and the
\* listing raised
ListingRaised(e) ==
    /\ sIn.work_type = "Job"
    /\ e.est
    /\ "get_updated_estimates" \in Range(e.res.calls)

\* C33: when the estimate listing of the conversion check raises, the job is
\* treated as not converted: the call ends as the same call would with an
\* estimate listing that answers with nothing, through the lookup by the
\* job's own id and create-or-update, with no retag, and if it fails it is
\* on another request
C33_ListingFailureIsNoConversion ==
    \A i \in DOMAIN sLog :
        LET e == sLog[i]
        IN ListingRaised(e) =>
            /\ e.res.conv_id = NoId
            /\ "update_opportunity_custom_field" \notin Range(e.res.calls)
            /\ \E F \in FailureModes :
                  /\ ~F.est
                  /\ e.res = sync_work_order_to_ghl(sIn.wo, "Job", <<>>, e.pre, F)
            /\ e.res.outcome = "raised" =>
                  /\ e.res.err.type = "JobSyncError"
                  /\ e.res.err.cause # "get_updated_estimates"
            /\ (e.res.outcome = "synced" /\ e.res.contact_id # NoId) =>
                  /\ CountOf(e.res.calls, "search_opportunity_by_job_id") = 1
                  /\ \E o \in OppsOf(e.res.tgt, e.res.contact_id) :
                        o.tag = Str(sIn.wo.id)

\* C33 witness: the listing raised for a job whose won estimate has an
\* opportunity under the contact, and the call created the job's own
\* opportunity and returned normally
C33_Witness ==
    \E i \in DOMAIN sLog :
        /\ ListingRaised(sLog[i])
        /\ EstWon \in Range(sIn.estFeed)
        /\ \E o \in sLog[i].pre.opps : o.tag = Str(EstWon.id)
        /\ sLog[i].res.outcome = "synced"
        /\ "create_opportunity" \in Range(sLog[i].res.calls)

-----------------------------------------------------------------------------
(* Claims about the customers' timestamps (checked under SpecList) *)

\* the call was a customers listing that returned
CustomersListed == ListReturned /\ lIn.kind = "customers"

\* record r of the feed is classified newer than since as a record of kind k
ClassifiedNewer(k, r) ==
    /\ Parses(k, r.updated_at)
    /\ IsNewer(UpdatedAtDatetime(k, r.updated_at), lIn.since)

\* C34: the customers lister compares against since the timestamp normalized
\* as for jobs and estimates (wall-clock in the Source zone converted to
\* UTC): a customer and a job with the same updated_at string are classified
\* alike against the same since, and the customers listing returns what the
\* jobs listing returns on the same records
C34_CustomersNormalizedAlike ==
    CustomersListed =>
        /\ \A i \in DOMAIN lIn.feed :
              ClassifiedNewer("customers", lIn.feed[i])
                  <=> ClassifiedNewer("jobs", lIn.feed[i])
        /\ lOut.res.items =
              GetUpdated("jobs", lIn.feed, lIn.since, lIn.max_results, lIn.failAt).items

\* what holds: the customers lister compares the stated wall-clock as it
\* stands, and a customer is classified otherwise than a job with the same
\* string exactly when since lies in the five hours from the stated
\* wall-clock on
C34_CustomersUnshifted ==
    CustomersListed =>
        \A i \in DOMAIN lIn.feed :
            LET r == lIn.feed[i]
            IN Parses("customers", r.updated_at) =>
                /\ UpdatedAtDatetime("customers", r.updated_at) = r.updated_at.wall
                /\ ClassifiedNewer("customers", r) <=> r.updated_at.wall > lIn.since
                /\ (ClassifiedNewer("customers", r) # ClassifiedNewer("jobs", r))
                      <=> ( /\ r.updated_at.wall <= lIn.since
                            /\ lIn.since < r.updated_at.wall + SfUtcOffsetHours )

\* a customers listing that returns nothing where the jobs listing on the same
\* records returns them
CustomerLeftOut ==
    /\ CustomersListed
    /\ ~lOut.res.raised
    /\ lOut.res.items = <<>>
    /\ GetUpdated("jobs", lIn.feed, lIn.since, lIn.max_results, lIn.failAt).items # <<>>

-----------------------------------------------------------------------------
(* Claims about the frame of the store's writers (checked under Spec) *)

\* files f and g hold the same value under every key but those of K
SameExcept(f, g, K) == \A key \in StateKeys \ K : f.data[key] = g.data[key]

\* the counters a pass of kind k hands to update_stats, with values the
\* store does not hold
CounterArgs(k) == {<<ChecksKey(k), 7>>, <<FoundKey(k), 9>>}

\* C35: on the store as it stands, whatever it holds, saving one kind's
\* cursor sets that cursor and leaves the other two cursors and every counter
\* as they were, and update_stats sets the counters it is given and leaves
\* every cursor and every other counter as they were; on a file that is not
\* valid JSON neither writes anything
C35_StoreFrame ==
    \A k \in Kinds :
        LET saved == save_last_poll_time(k, file, now)
            stats == update_stats(file, CounterArgs(k))
        IN IF file.status = "invalid"
           THEN saved.raised /\ saved.file = file /\ stats = file
           ELSE /\ ~saved.raised
                /\ saved.file.data[CursorKey(k)] = now
                /\ SameExcept(saved.file, file, {CursorKey(k)})
                /\ stats.data[ChecksKey(k)] = 7
                /\ stats.data[FoundKey(k)] = 9
                /\ SameExcept(stats, file, {ChecksKey(k), FoundKey(k)})

\* C35 witness: the customers pass has saved its cursor into a store that
\* held all three cursors and the counters; the estimates and jobs cursors
\* and counters are as seeded
C35_Witness ==
    /\ run.kind = "customers"
    /\ run.result = "completed"
    /\ file.status = "valid"
    /\ file.data[CursorKey("customers")] = now
    /\ SameExcept(file, SeededFile,
                  {CursorKey("customers"), ChecksKey("customers"),
                   FoundKey("customers"), "last_check"})
    /\ file.data[CursorKey("jobs")] # now

-----------------------------------------------------------------------------
(* Claims about the batched failure notification (checked under SpecBatch) *)

\* a pass has ended after records of it failed
BatchSent == run.kind \in Kinds /\ run.result = "completed" /\ run.sync_errors # <<>>

\* C36: the batched failure notification of a pass of any kind carries the
\* total failed count and at most the first five failure contexts, in the
\* order the failures occurred, however many records failed
C36_FirstFiveContexts ==
    BatchSent =>
        /\ Len(BatchNotesOf(run)) = 1
        /\ BatchNotesOf(run)[1].count = Len(run.sync_errors)
        /\ Len(run.context) <= 5
        /\ run.context = SubSeq(run.sync_errors, 1, Min(5, Len(run.sync_errors)))

\* what holds: the estimates and jobs passes carry the first five contexts,
\* the customers pass carries every context
C36_CustomersCarryAll ==
    BatchSent =>
        /\ Len(BatchNotesOf(run)) = 1
        /\ BatchNotesOf(run)[1].count = Len(run.sync_errors)
        /\ run.kind # "customers" =>
              run.context = SubSeq(run.sync_errors, 1, Min(5, Len(run.sync_errors)))
        /\ run.kind = "customers" => run.context = run.sync_errors

\* a jobs pass with more than five failures has sent its notification
JobsBatchTruncated ==
    /\ BatchSent
    /\ run.kind = "jobs"
    /\ Len(run.sync_errors) > 5
    /\ Len(run.context) = 5

-----------------------------------------------------------------------------
(* Claims about the failures of the intake endpoint (checked under SpecIntake) *)

\* how many of the notifications have the severity
NotesOf(notes, severity) ==
    Cardinality({i \in DOMAIN notes : notes[i].severity = severity})

\* the customer find-or-create step of the request raised
CustomerStepRaised == hOut.called /\ FindOrCreateCustomer(hIn, hOut.env).raised

\* the customer step succeeded and STEP 2 raised: building the payload did,
\* or create_job did
JobStepRaised ==
    /\ hOut.called
    /\ ~FindOrCreateCustomer(hIn, hOut.env).raised
    /\ \/ hIn.customData = "null"
       \/ hOut.env.fails \in {"create_job:HTTPStatusError", "create_job:other"}

\* C37: when the customer find-or-create step raises, the request fails with
\* HTTP 500, one critical notification is sent and no job creation is
\* attempted; when the job creation raises, the request answers status
\* "success" with job_created false and the customer's id, and one
\* high-severity notification is sent
C37_IntakeFailures ==
    /\ CustomerStepRaised =>
          /\ hOut.res.http = 500
          /\ NotesOf(hOut.res.notes, "critical") = 1
          /\ CountOf(hOut.res.calls, "create_job:Scheduled") = 0
    /\ JobStepRaised =>
          /\ hOut.res.http = 200
          /\ hOut.res.response.status = "success"
          /\ ~hOut.res.response.job_created
          /\ hOut.res.response.customer_id # NoId
          /\ NotesOf(hOut.res.notes, "high") = 1

\* what holds: the endpoint itself sends one critical notification when the
\* customer step raises, and the email/phone search has sent one of its own
\* before re-raising, so that failure alone is reported twice
C37_SearchReportedTwice ==
    /\ CustomerStepRaised =>
          /\ hOut.res.http = 500
          /\ NotesOf(hOut.res.notes, "critical") =
                IF CountOf(hOut.res.calls, "find_customer_by_email_or_phone") = 1
                   /\ hOut.env.fails = "find_customer_by_email_or_phone"
                THEN 2 ELSE 1
          /\ NotesOf(hOut.res.notes, "high") = 0
          /\ CountOf(hOut.res.calls, "create_job:Scheduled") = 0
    /\ JobStepRaised =>
          /\ hOut.res.http = 200
          /\ hOut.res.response.status = "success"
          /\ ~hOut.res.response.job_created
          /\ hOut.res.response.customer_id # NoId
          /\ NotesOf(hOut.res.notes, "high") = 1
          /\ NotesOf(hOut.res.notes, "critical") = 0

\* the email/phone search raised and the request answered 500
SearchRaised ==
    /\ CustomerStepRaised
    /\ hOut.res.calls = <<"find_customer_by_email_or_phone">>
    /\ Len(hOut.res.notes) = 2

\* create_job raised for a customer the request created
JobRaisedAfterCreate ==
    /\ JobStepRaised
    /\ hOut.res.created
    /\ hOut.res.calls = <<"find_customer_by_email_or_phone", "create_customer",
                          "create_job:Scheduled">>

-----------------------------------------------------------------------------
(* Claims about the intake response (checked under SpecIntake) *)

\* C38: the response reports customer_created = true exactly when the
\* request caused a new Source customer to be created, and false whenever an
\* existing customer was used, found by the supplied id or by email/phone
C38_CreatedReported ==
    CustomerStepDone =>
        (hOut.res.response.customer_created <=> hOut.res.created)

\* what holds: customer_created tells whether the request carried no
\* sf_customer_id key, whatever the customer step then did
C38_CreatedMeansNoId ==
    CustomerStepDone =>
        /\ hOut.res.response.customer_created <=> (hIn.sf_customer_id = None)
        /\ hOut.res.created <=>
              CountOf(hOut.res.calls, "create_customer") = 1
        /\ hOut.res.created => hOut.res.response.customer_id = NewCustomerId
        /\ ~hOut.res.created => hOut.res.response.customer_id \in {1, 2}

\* a request without id whose customer the email/phone search found is
\* answered customer_created true
FoundReportedCreated ==
    /\ CustomerStepDone
    /\ hIn.sf_customer_id = None
    /\ hOut.res.response.customer_id = 2
    /\ ~hOut.res.created
    /\ hOut.res.response.customer_created

\* a request whose id matched no customer, and for which one was created, is
\* answered customer_created false
CreatedReportedFound ==
    /\ CustomerStepDone
    /\ hIn.sf_customer_id = "4"
    /\ hOut.res.created
    /\ ~hOut.res.response.customer_created

-----------------------------------------------------------------------------
(* Claims about the pages the lister fetches (checked under SpecList) *)

\* ceil(n / PageSize)
PagesOfFeed(n) == (n + PageSize - 1) \div PageSize

\* the page fetches the call made; it asks for the pages 1, 2, ... in order
Fetched == lOut.res.pages

\* C39: on every finite feed the lister terminates: for a feed of N records
\* it fetches at most ceil(N / page size) + 1 pages, also when whole pages
\* hold only bad records, and it fetches no page after the first page that is
\* empty or shorter than the page size
C39_PagesBounded ==
    lOut.called =>
        /\ Fetched >= 1
        /\ Fetched <= PagesOfFeed(Len(lIn.feed)) + 1
        /\ \A p \in 1..(Fetched - 1) : Len(PageOf(lIn.feed, p)) = PageSize

\* a feed whose one full page holds only bad records: the lister skipped
\* them all, fetched the empty page after it and stopped there, at the bound
C39_Witness ==
    /\ lOut.called
    /\ Len(lIn.feed) = PageSize
    /\ \A p \in 1..PageSize : IsBad(p)
    /\ lIn.failAt = 0
    /\ Fetched = PagesOfFeed(Len(lIn.feed)) + 1
    /\ Len(lOut.res.bad) = PageSize
    /\ ~lOut.res.raised

\* a feed ending in a short page of bad records: the short page was the last
\* one fetched
ShortBadPageEnds ==
    /\ lOut.called
    /\ Len(lIn.feed) = PageSize + 1
    /\ \A p \in 1..Len(lIn.feed) : IsBad(p)
    /\ lIn.failAt = 0
    /\ Fetched = 2
    /\ Examined = Len(lIn.feed)

====
